---- MODULE Spec2Model ----
(***************************************************************************)
(* One upscale operation of fluxxxer: the Upscale button of the gallery    *)
(* (the temporary copy of the source image), the confirm dialog of the app *)
(* layer, App.upscaleImage, Client.UpscaleImageFromPath (pre-flight        *)
(* checks, the retry loop of the POST, classification and decoding of the  *)
(* response, down to the bytes of the nested-base64 envelope),             *)
(* Client.pollForResultID (the select loop over the ticker and the timeout *)
(* channel), and what the UI does with the result: the callback, the       *)
(* download of handleUpscaledImage and the dialog that shows the image.    *)
(*                                                                         *)
(* The server, the file system, the user and the clock are the             *)
(* environment: every reply, every file-system failure, every click and    *)
(* every passage of time is a nondeterministic choice.                     *)
(*                                                                         *)
(* Three smaller parts of the application have specifications of their     *)
(* own: the generation client (GenSpec), loadEnvironment at the start of   *)
(* the process (EnvSpec) and the mode switcher of the header (ModeSpec).   *)
(* In Spec they stand still, in the state the window is first shown in.    *)
(***************************************************************************)
EXTENDS Integers, Sequences, FiniteSets, TLC

(***************************************************************************)
(* Bounds of the exploration.                                              *)
(***************************************************************************)
\* most poll requests explored in one run of pollForResultID
MaxPolls == 6

(***************************************************************************)
(* Program constants.                                                      *)
(***************************************************************************)
\* client.go:224  maxRetries := 3
maxRetries == 3
\* client.go:122  const maxSizeBytes = 5 * 1024 * 1024
maxSizeBytes == 5242880
\* client.go:92   pollTimeout: 5 * time.Minute   (seconds)
pollTimeout == 300
\* client.go:93   pollInterval: 2 * time.Second  (seconds)
pollInterval == 2
\* net/http status codes named in client.go
StatusOK == 200
StatusAccepted == 202
StatusBadGateway == 502

UpscaleFast == "fast"
UpscaleConservative == "conservative"
UpscaleCreative == "creative"

\* client.go:497  pngSignature, client.go:508  jpegSignature
pngSignature == <<137, 80, 78, 71, 13, 10, 26, 10>>
jpegSignature == <<255, 216, 255>>

(***************************************************************************)
(* Bytes and response bodies.                                              *)
(*                                                                         *)
(* A body is its leading bytes (data), whether encoding/json accepts it as *)
(* an object whose fields have the types of the Go structs (parses), and   *)
(* the fields of that object (doc).  The zero value of a field stands for  *)
(* an absent key, as json.Unmarshal leaves it.                             *)
(***************************************************************************)
\* data.image of the nested-base64 envelope is a string, kept as the sequence
\* of its bytes; the empty string stands for an absent key
NoImage == <<>>

\* the JSON object {} : every key absent
EmptyDoc ==
    [ID |-> "", Status |-> "", URL |-> "", Error |-> "", IsCompleted |-> FALSE,
     Success |-> FALSE, Result |-> "", ImageURL |-> "", OutputURL |-> "",
     DataImage |-> NoImage]

JSONBody(doc) == [data |-> <<123>>, parses |-> TRUE, doc |-> doc]
RawBody(bytes) == [data |-> bytes, parses |-> FALSE, doc |-> EmptyDoc]

\* bytes.TrimSpace: leading white space removed (the trailing end is not modelled,
\* only the first byte of the result is read).  White space is the ASCII set
\* and, in UTF-8, U+0085 and U+00A0; the three-byte Unicode spaces are left out
IsSpace(b) == b \in {9, 10, 11, 12, 13, 32}
RECURSIVE TrimSpace(_)
TrimSpace(data) ==
    IF Len(data) > 0 /\ IsSpace(Head(data)) THEN TrimSpace(Tail(data))
    ELSE IF Len(data) > 1 /\ data[1] = 194 /\ data[2] \in {133, 160}
    THEN TrimSpace(SubSeq(data, 3, Len(data)))
    ELSE data

\* faulty variant: the first byte is read without trimming
isJSONResponse_NoTrim(data) ==
    IF Len(data) = 0 THEN FALSE
    ELSE data[1] = 123 \/ data[1] = 91

\* client.go:479-494
isJSONResponse(data) ==
    IF Len(data) = 0 THEN FALSE
    ELSE LET trimmed == TrimSpace(data) IN
         IF Len(trimmed) = 0 THEN FALSE
         ELSE trimmed[1] = 123 \/ trimmed[1] = 91

\* client.go:500-505
hasPNGSignature(data) ==
    IF Len(data) < Len(pngSignature) THEN FALSE
    ELSE SubSeq(data, 1, Len(pngSignature)) = pngSignature

\* client.go:511-516
hasJPEGSignature(data) ==
    IF Len(data) < Len(jpegSignature) THEN FALSE
    ELSE SubSeq(data, 1, Len(jpegSignature)) = jpegSignature

(***************************************************************************)
(* The Go structs the bodies are decoded into.                             *)
(***************************************************************************)
\* client.go:46-59  UpscaleResult (Message is never read and is left out)
ZeroResult ==
    [ID |-> "", Status |-> "", URL |-> "", Error |-> "", IsCompleted |-> FALSE,
     Success |-> FALSE, Result |-> "", ImageURL |-> "", OutputURL |-> ""]

\* json.Unmarshal(bodyBytes, &result) with result an UpscaleResult: the keys of
\* the struct are copied, data.image is not a field of it
UnmarshalUpscaleResult(body) ==
    [ID |-> body.doc.ID, Status |-> body.doc.Status, URL |-> body.doc.URL,
     Error |-> body.doc.Error, IsCompleted |-> body.doc.IsCompleted,
     Success |-> body.doc.Success, Result |-> body.doc.Result,
     ImageURL |-> body.doc.ImageURL, OutputURL |-> body.doc.OutputURL]

\* json.Unmarshal(bodyBytes, &base64Response) with a Base64Response (client.go:62-67)
UnmarshalBase64Response(body) ==
    [Success |-> body.doc.Success, Image |-> body.doc.DataImage]

\* strings.HasPrefix(s, prefix)
HasPrefix(s, prefix) ==
    Len(s) >= Len(prefix) /\ SubSeq(s, 1, Len(prefix)) = prefix

(***************************************************************************)
(* encoding/base64, StdEncoding: the alphabet A-Z a-z 0-9 + / with '='     *)
(* padding.  Strings that are decoded are sequences of bytes.              *)
(***************************************************************************)
PadChar == 61
\* the character of a 6-bit value
B64Char(i) ==
    IF i < 26 THEN 65 + i
    ELSE IF i < 52 THEN 97 + (i - 26)
    ELSE IF i < 62 THEN 48 + (i - 52)
    ELSE IF i = 62 THEN 43 ELSE 47

\* faulty variant: the URL-safe alphabet ('-' and '_' for 62 and 63)
B64Index_URLSafe(c) ==
    IF c >= 65 /\ c <= 90 THEN c - 65
    ELSE IF c >= 97 /\ c <= 122 THEN c - 97 + 26
    ELSE IF c >= 48 /\ c <= 57 THEN c - 48 + 52
    ELSE IF c = 45 THEN 62
    ELSE IF c = 95 THEN 63
    ELSE -1

\* the 6-bit value of a character, -1 for a character outside the alphabet
B64Index(c) ==
    IF c >= 65 /\ c <= 90 THEN c - 65
    ELSE IF c >= 97 /\ c <= 122 THEN c - 97 + 26
    ELSE IF c >= 48 /\ c <= 57 THEN c - 48 + 52
    ELSE IF c = 43 THEN 62
    ELSE IF c = 47 THEN 63
    ELSE -1

\* base64.StdEncoding.EncodeToString, as the server applies it
RECURSIVE Base64Encode(_)
Base64Encode(b) ==
    IF Len(b) = 0 THEN <<>>
    ELSE IF Len(b) = 1
    THEN <<B64Char(b[1] \div 4), B64Char((b[1] % 4) * 16), PadChar, PadChar>>
    ELSE IF Len(b) = 2
    THEN <<B64Char(b[1] \div 4), B64Char((b[1] % 4) * 16 + b[2] \div 16),
           B64Char((b[2] % 16) * 4), PadChar>>
    ELSE <<B64Char(b[1] \div 4), B64Char((b[1] % 4) * 16 + b[2] \div 16),
           B64Char((b[2] % 16) * 4 + b[3] \div 64), B64Char(b[3] % 64)>>
         \o Base64Encode(SubSeq(b, 4, Len(b)))

DecodeFailed == [ok |-> FALSE, bytes |-> <<>>]
Decoded(bytes) == [ok |-> TRUE, bytes |-> bytes]

\* the quantum-by-quantum decoding: four characters give three bytes, the
\* last quantum may end in one or two padding characters
RECURSIVE DecodeQuanta(_)
DecodeQuanta(t) ==
    IF Len(t) = 0 THEN Decoded(<<>>)
    ELSE IF Len(t) < 4 THEN DecodeFailed
    ELSE LET a == B64Index(t[1])
             b == B64Index(t[2])
             c == B64Index(t[3])
             d == B64Index(t[4])
             last == Len(t) = 4
         IN  IF a < 0 \/ b < 0 THEN DecodeFailed
             ELSE IF t[3] = PadChar
             THEN IF last /\ t[4] = PadChar
                  THEN Decoded(<<a * 4 + b \div 16>>)
                  ELSE DecodeFailed
             ELSE IF c < 0 THEN DecodeFailed
             ELSE IF t[4] = PadChar
             THEN IF last
                  THEN Decoded(<<a * 4 + b \div 16, (b % 16) * 16 + c \div 4>>)
                  ELSE DecodeFailed
             ELSE IF d < 0 THEN DecodeFailed
             ELSE LET rest == DecodeQuanta(SubSeq(t, 5, Len(t))) IN
                  IF rest.ok
                  THEN Decoded(<<a * 4 + b \div 16, (b % 16) * 16 + c \div 4,
                                 (c % 4) * 64 + d>> \o rest.bytes)
                  ELSE DecodeFailed

IsNewline(c) == c = 10 \/ c = 13

\* client.go:366, 390  base64.StdEncoding.DecodeString: CR and LF are skipped,
\* any other character outside the alphabet and any wrong padding is an error
DecodeString(s) == DecodeQuanta(SelectSeq(s, LAMBDA c : ~IsNewline(c)))

(***************************************************************************)
(* The data URL and the nested JSON of the envelope.                       *)
(***************************************************************************)
\* "data:"
DataScheme == <<100, 97, 116, 97, 58>>
\* ";base64,"
Base64Marker == <<59, 98, 97, 115, 101, 54, 52, 44>>
\* "image/png"
MimePNG == <<105, 109, 97, 103, 101, 47, 112, 110, 103>>

\* strings.Index: the position of the first occurrence of sub in s, 0 for none
IndexOf(s, sub) ==
    LET hits == { i \in 1..(Len(s) - Len(sub) + 1) :
                     SubSeq(s, i, i + Len(sub) - 1) = sub }
    IN  IF hits = {} THEN 0 ELSE CHOOSE i \in hits : \A j \in hits : i <= j

\* strings.Contains
Contains(s, sub) == IndexOf(s, sub) > 0

\* strings.SplitN(s, sep, 2)[1]: what follows the first occurrence of sep
AfterFirst(s, sep) == SubSeq(s, IndexOf(s, sep) + Len(sep), Len(s))

\* {"image":"  and  "}
NestedOpen == <<123, 34, 105, 109, 97, 103, 101, 34, 58, 34>>
NestedClose == <<34, 125>>

\* the JSON text {"image":"<field>"} the server wraps the image in
NestedJSONText(field) == NestedOpen \o field \o NestedClose

\* client.go:373-374  json.Unmarshal(jsonData, &nestedJSON) for the texts the
\* server is taken to send: {} leaves Image empty, {"image":"..."} with a
\* string free of quotes, backslashes and control characters sets it, and
\* every other text here (empty, not an object, cut short) is a syntax error
UnmarshalNestedImageJSON(text) ==
    IF text = <<123, 125>> THEN [ok |-> TRUE, Image |-> <<>>]
    ELSE IF /\ Len(text) >= Len(NestedOpen) + Len(NestedClose)
            /\ SubSeq(text, 1, Len(NestedOpen)) = NestedOpen
            /\ SubSeq(text, Len(text) - 1, Len(text)) = NestedClose
    THEN LET field == SubSeq(text, Len(NestedOpen) + 1, Len(text) - Len(NestedClose)) IN
         IF \A i \in 1..Len(field) : field[i] >= 32 /\ field[i] # 34 /\ field[i] # 92
         THEN [ok |-> TRUE, Image |-> field]
         ELSE [ok |-> FALSE, Image |-> <<>>]
    ELSE [ok |-> FALSE, Image |-> <<>>]

\* the envelope the server builds for the image bytes img: base64 of img inside
\* a JSON object, that JSON base64-encoded inside a data URL
Envelope(img) ==
    DataScheme \o MimePNG \o Base64Marker
        \o Base64Encode(NestedJSONText(Base64Encode(img)))

(***************************************************************************)
(* Sample inputs: the values the environment draws from.                   *)
(***************************************************************************)
URL1 == "http://x/img.png"
URL2 == "https://cdn.example/alt.png"
Job1 == "job-1"
PNGBytes == pngSignature \o <<0>>
JPEGBytes == jpegSignature \o <<224>>

\* image bytes the server wraps in an envelope: every length modulo 3 (the
\* padding cases of base64), 6-bit values that map to '+' and '/', the two
\* signatures and an unknown format
EnvelopeImages ==
    { <<>>, <<0>>, <<255>>, <<251, 239>>, <<255, 255, 255>>, <<0, 16, 131, 16>>,
      <<71, 73, 70, 56, 57>>, JPEGBytes, PNGBytes }

\* a JSON body with success = true and the given data.image
EnvelopeBody(image) == JSONBody([EmptyDoc EXCEPT !.Success = TRUE, !.DataImage = image])

\* envelopes with one malformed layer
MalformedEnvelopes ==
    { Base64Encode(NestedJSONText(Base64Encode(PNGBytes))),       \* no data URL
      DataScheme \o MimePNG \o <<44>> \o Base64Encode(<<123, 125>>), \* no ";base64,"
      DataScheme \o MimePNG \o Base64Marker \o <<33, 33, 33, 33>>,   \* outer "!!!!"
      DataScheme \o MimePNG \o Base64Marker \o <<101, 51, 48>>,      \* outer unpadded
      DataScheme \o MimePNG \o Base64Marker,                          \* outer empty
      DataScheme \o MimePNG \o Base64Marker \o Base64Encode(<<60>>), \* nested "<"
      DataScheme \o MimePNG \o Base64Marker                           \* nested cut short
          \o Base64Encode(NestedOpen \o Base64Encode(PNGBytes)),
      DataScheme \o MimePNG \o Base64Marker                           \* inner "Zm9v!"
          \o Base64Encode(NestedJSONText(<<90, 109, 57, 118, 33>>)),
      DataScheme \o MimePNG \o Base64Marker                           \* inner unpadded
          \o Base64Encode(NestedJSONText(<<105, 86, 65>>)) }

\* well-formed envelopes whose nested JSON holds no image: {"image":""} and {}
EmptyImageEnvelopes ==
    { Envelope(<<>>),
      DataScheme \o MimePNG \o Base64Marker \o Base64Encode(<<123, 125>>) }

\* bodies of a 200/202 answer of the upscale endpoint
SampleBodies ==
    { EnvelopeBody(Envelope(img)) : img \in EnvelopeImages }
    \cup { EnvelopeBody(image) : image \in MalformedEnvelopes }
    \cup { EnvelopeBody(image) : image \in EmptyImageEnvelopes }
    \cup
    { RawBody(PNGBytes),                                   \* a PNG image
      RawBody(JPEGBytes),                                  \* a JPEG image
      RawBody(<<71, 73, 70, 56>>),                         \* other bytes ("GIF8")
      RawBody(<<>>),                                       \* an empty body
      RawBody(<<91>>),                                     \* a JSON array
      RawBody(pngSignature \o <<123, 125>>),               \* a PNG signature, then {}
      RawBody(<<32, 10>>),                                 \* white space only
      RawBody(<<123, 33>>),                                \* {! : not JSON
      RawBody(<<12, 123>>),                                \* form feed, then { : not JSON
      RawBody(<<194, 160, 123>>),                          \* U+00A0, then { : not JSON
      [JSONBody([EmptyDoc EXCEPT !.URL = URL1]) EXCEPT !.data = <<10, 32, 123>>],
      JSONBody(EmptyDoc),                                  \* {}
      JSONBody([EmptyDoc EXCEPT !.ID = Job1]),             \* {"id":"job-1"}
      JSONBody([EmptyDoc EXCEPT !.URL = URL1]),            \* {"url":...}
      JSONBody([EmptyDoc EXCEPT !.ID = Job1, !.URL = URL1]),
      JSONBody([EmptyDoc EXCEPT !.ImageURL = URL2]),
      JSONBody([EmptyDoc EXCEPT !.Result = URL1]),
      JSONBody([EmptyDoc EXCEPT !.Result = "ok"]),
      JSONBody([EmptyDoc EXCEPT !.Result = "ftp://x/img.png"]),
      JSONBody([EmptyDoc EXCEPT !.URL = URL1, !.ImageURL = URL2]),
      JSONBody([EmptyDoc EXCEPT !.ImageURL = URL2, !.OutputURL = URL1]),
      JSONBody([EmptyDoc EXCEPT !.OutputURL = URL2, !.Result = URL1]),
      JSONBody([EmptyDoc EXCEPT !.Result = URL2]),
      \* success = true with an empty data.image, and success = false with an envelope
      JSONBody([EmptyDoc EXCEPT !.Success = TRUE, !.URL = URL1]),
      JSONBody([EmptyDoc EXCEPT !.DataImage = Envelope(PNGBytes)]),
      \* a direct URL and an envelope in one object
      JSONBody([EmptyDoc EXCEPT !.URL = URL1, !.Success = TRUE,
                                !.DataImage = Envelope(JPEGBytes)]) }

ErrorBody == RawBody(<<60>>)          \* an HTML or text error page

\* statuses the upscale endpoint answers with
SampleStatuses == {200, 202, 404, 500, 502}

\* what httpClient.Do(req) of the POST can yield: a transport error (no
\* response), or a response whose body may fail to be read
PostReplies ==
    { [net |-> FALSE, status |-> 0, readOK |-> FALSE, body |-> ErrorBody] }
    \cup { [net |-> TRUE, status |-> s, readOK |-> TRUE, body |-> ErrorBody] :
             s \in SampleStatuses \ {StatusOK, StatusAccepted} }
    \cup { [net |-> TRUE, status |-> s, readOK |-> TRUE, body |-> b] :
             s \in {StatusOK, StatusAccepted}, b \in SampleBodies }
    \cup { [net |-> TRUE, status |-> StatusOK, readOK |-> FALSE, body |-> ErrorBody] }

\* bodies of a 200 answer of the poll endpoint
SamplePollBodies ==
    { ErrorBody,
      JSONBody([EmptyDoc EXCEPT !.Status = "pending"]),
      JSONBody([EmptyDoc EXCEPT !.Status = "completed", !.URL = URL1]),
      JSONBody([EmptyDoc EXCEPT !.IsCompleted = TRUE, !.ImageURL = URL2]),
      JSONBody([EmptyDoc EXCEPT !.Status = "done", !.OutputURL = URL2]),
      JSONBody([EmptyDoc EXCEPT !.Status = "completed"]),
      JSONBody([EmptyDoc EXCEPT !.Status = "completed", !.Result = URL1]),
      JSONBody([EmptyDoc EXCEPT !.Status = "failed", !.Error = "boom"]),
      JSONBody([EmptyDoc EXCEPT !.IsCompleted = TRUE, !.URL = URL1, !.Error = "boom"]) }

PollReplies ==
    { [net |-> FALSE, status |-> 0, readOK |-> FALSE, body |-> ErrorBody],
      [net |-> TRUE, status |-> 503, readOK |-> TRUE, body |-> ErrorBody],
      [net |-> TRUE, status |-> StatusOK, readOK |-> FALSE, body |-> ErrorBody] }
    \cup { [net |-> TRUE, status |-> StatusOK, readOK |-> TRUE, body |-> b] :
             b \in SamplePollBodies }

NoReply == [net |-> FALSE, status |-> -1, readOK |-> FALSE, body |-> ErrorBody]

\* the options of one call (the fields the control flow reads)
SampleOpts ==
    { [Type |-> t, Prompt |-> p] :
        t \in {UpscaleFast, UpscaleConservative, UpscaleCreative}, p \in {"", "cat"} }

NoOpts == [Type |-> "", Prompt |-> ""]

\* the source image: its path, whether it can be opened, its size in bytes
SampleImages ==
    { [path |-> "", exists |-> FALSE, size |-> 0],
      [path |-> "/home/u/in.png", exists |-> FALSE, size |-> 0],
      [path |-> "/home/u/in.png", exists |-> TRUE, size |-> 0],
      [path |-> "/home/u/in.png", exists |-> TRUE, size |-> maxSizeBytes],
      [path |-> "/home/u/in.png", exists |-> TRUE, size |-> maxSizeBytes + 1] }

\* the images the file chooser and the drop target hand to the dialog
\* (part_001:20-34: the path is a real file with an image extension)
DialogImages == { i \in SampleImages : i.path # "" /\ i.exists }

\* os.TempDir(): $TMPDIR, or /tmp
TempDirs == {"/tmp", "/var/tmp"}

\* os.CreateTemp(dir, "upscaled-*" + ext)
TempPath(dir, ext) == dir \o "/upscaled-" \o "1" \o ext

(***************************************************************************)
(* Decisions of the code, as operators.                                    *)
(***************************************************************************)
\* client.go:157, 462  the modes that need a prompt and a poll
IsAsyncType(t) == t = UpscaleConservative \/ t = UpscaleCreative

\* part_001:274-279  the validation of App.upscaleImage: TRUE when it rejects
PromptMissing(o) == IsAsyncType(o.Type) /\ o.Prompt = ""

\* faulty variant: a client error (4xx) is retried as well
ShouldRetry_ClientErrors(status, n) == status >= 400 /\ n < maxRetries

\* faulty variant: the loop gives up one attempt early
ShouldRetry_OneShort(status, n) == status >= 500 /\ n < maxRetries - 1

\* client.go:236  retry on a server error, unless this was the last attempt
ShouldRetry(status, n) == status >= 500 /\ n < maxRetries

\* client.go:254  the statuses that are decoded
IsSuccessStatus(status) == status = StatusOK \/ status = StatusAccepted

\* client.go:293  the body is taken as image bytes
IsBinaryImage(data) ==
    Len(data) > 0 /\ (hasPNGSignature(data) \/ hasJPEGSignature(data) \/ ~isJSONResponse(data))

\* client.go:297-306, 396-404  the extension of the temporary file
ImageExt(data) ==
    IF hasPNGSignature(data) THEN ".png"
    ELSE IF hasJPEGSignature(data) THEN ".jpg"
    ELSE ".png"

\* client.go:339  the body is a nested-base64 envelope
IsBase64Response(body) ==
    body.parses /\ UnmarshalBase64Response(body).Success
                /\ UnmarshalBase64Response(body).Image # <<>>

\* faulty variant: the result field is taken as a URL whatever it holds
ResolveURL_AnyResult(result) ==
    IF result.URL # "" THEN result
    ELSE IF result.ImageURL # "" THEN [result EXCEPT !.URL = result.ImageURL]
    ELSE IF result.OutputURL # "" THEN [result EXCEPT !.URL = result.OutputURL]
    ELSE IF result.Result # "" THEN [result EXCEPT !.URL = result.Result]
    ELSE result

\* client.go:444-453  the URL of the initial response: url, image_url,
\* output_url, then result when it is an http(s) URL
ResolveURL(result) ==
    IF result.URL # "" THEN result
    ELSE IF result.ImageURL # "" THEN [result EXCEPT !.URL = result.ImageURL]
    ELSE IF result.OutputURL # "" THEN [result EXCEPT !.URL = result.OutputURL]
    ELSE IF result.Result # "" /\ (HasPrefix(result.Result, "http://")
                                   \/ HasPrefix(result.Result, "https://"))
         THEN [result EXCEPT !.URL = result.Result]
    ELSE result

\* faulty variant: only the completion flag is read, the status string is not
IsJobDone_FlagOnly(result) == result.IsCompleted

\* client.go:576  the poll response says the job is over
IsJobDone(result) ==
    result.IsCompleted \/ result.Status = "completed" \/ result.Status = "done"

\* client.go:579-586  the URL of a poll response: url, image_url, output_url
PollResolveURL(result) ==
    IF result.URL # "" THEN result
    ELSE IF result.ImageURL # "" THEN [result EXCEPT !.URL = result.ImageURL]
    ELSE IF result.OutputURL # "" THEN [result EXCEPT !.URL = result.OutputURL]
    ELSE result

\* faulty variant: a finished job is returned without looking for its URL
PollCompletes_NoURLCheck(result) == IsJobDone(result)

\* client.go:576-590  a poll response that ends the loop with a result
PollCompletes(result) == IsJobDone(result) /\ PollResolveURL(result).URL # ""

\* client.go:594  a poll response that ends the loop with the server's error;
\* it is read after the completion check
PollFails(result) == ~PollCompletes(result) /\ result.Error # ""

\* client.go:528  time.NewTicker(c.pollInterval): the first tick is delivered
\* one interval after the ticker is created, the channel starts empty
TickerAtStart == FALSE

\* client.go:527, 600  time.After(c.pollTimeout): the channel is ready once the
\* ceiling has passed since the call, whatever the loop did meanwhile
TimeoutReady(t) == t >= pollTimeout

(***************************************************************************)
(* What a call returns.                                                    *)
(***************************************************************************)
\* quoted: the response body an error message quotes (%s of string(bodyBytes)),
\* as a sequence of at most one body
NoReturn == [kind |-> "none", result |-> ZeroResult, err |-> "", quoted |-> <<>>]
Ok(result) == [kind |-> "ok", result |-> result, err |-> "", quoted |-> <<>>]
Err(msg) == [kind |-> "err", result |-> ZeroResult, err |-> msg, quoted |-> <<>>]
\* client.go:273, 440, 457  an error whose message ends with the raw body
ErrQuoting(msg, body) == [Err(msg) EXCEPT !.quoted = <<body>>]

ErrPromptRequired == "prompt is required for upscaling"
ErrEmptyPath == "image path cannot be empty"
ErrOpen == "failed to open image file"
ErrEmptyFile == "image file is empty"
ErrTooLarge == "image file is too large"
ErrRequest == "request failed"
ErrBadGateway == "server temporarily unavailable (502 Bad Gateway)"
ErrStatus == "API returned error status"
ErrReadBody == "failed to read response body"
ErrCreateTemp == "failed to create temporary file"
ErrWriteTemp == "failed to write image data"
ErrDataFormat == "unexpected data format, missing data:type;base64, prefix"
ErrOuterB64 == "failed to decode outer base64 data"
ErrNestedJSON == "failed to parse nested JSON"
ErrInnerB64 == "failed to decode inner image data"
ErrDecode == "failed to decode response"
ErrNoURL == "no upscaled image URL in response"
ErrNoJobID == "no job ID returned for async upscaling"
ErrPollRequest == "poll request failed"
ErrPollRead == "failed to read poll response"
ErrJobFailed(msg) == "upscaling job failed: " \o msg
ErrPollTimeout == "timeout waiting for upscaling job completion"

(***************************************************************************)
(* client.go:248-475  what UpscaleImageFromPath does with the response the *)
(* retry loop ended on, up to the file system and the poll loop: fail      *)
(* ("err"), store image bytes in a temporary file ("file"), return the     *)
(* decoded JSON result ("url"), or poll for a job id ("poll").             *)
(***************************************************************************)
Plan(kind, err, data, result) ==
    [kind |-> kind, err |-> err, data |-> data, result |-> result, quoted |-> <<>>]

\* a failure whose message quotes the body
PlanQuoting(err, body) ==
    [Plan("err", err, <<>>, ZeroResult) EXCEPT !.quoted = <<body>>]

\* faulty variant: a layer that does not decode is replaced by an empty one
DecodeBase64Response_Lenient(body) ==
    LET base64Data == UnmarshalBase64Response(body).Image IN
    IF ~(HasPrefix(base64Data, DataScheme) /\ Contains(base64Data, Base64Marker))
    THEN Plan("err", ErrDataFormat, <<>>, ZeroResult)
    ELSE LET jsonData == DecodeString(AfterFirst(base64Data, Base64Marker)) IN
         IF ~jsonData.ok THEN Plan("err", ErrOuterB64, <<>>, ZeroResult)
         ELSE LET nestedJSON == UnmarshalNestedImageJSON(jsonData.bytes) IN
              Plan("file", "", DecodeString(nestedJSON.Image).bytes, ZeroResult)

\* client.go:336-434  the nested-base64 envelope
DecodeBase64Response(body) ==
    LET base64Data == UnmarshalBase64Response(body).Image IN
    IF ~(HasPrefix(base64Data, DataScheme) /\ Contains(base64Data, Base64Marker))
    THEN Plan("err", ErrDataFormat, <<>>, ZeroResult)
    ELSE LET jsonData == DecodeString(AfterFirst(base64Data, Base64Marker)) IN
         IF ~jsonData.ok THEN Plan("err", ErrOuterB64, <<>>, ZeroResult)
         ELSE LET nestedJSON == UnmarshalNestedImageJSON(jsonData.bytes) IN
              IF ~nestedJSON.ok THEN Plan("err", ErrNestedJSON, <<>>, ZeroResult)
              ELSE LET imgData == DecodeString(nestedJSON.Image) IN
                   IF ~imgData.ok THEN Plan("err", ErrInnerB64, <<>>, ZeroResult)
                   ELSE Plan("file", "", imgData.bytes, ZeroResult)

\* faulty variant: a response with a job id is polled for in every mode
DecodeJSONResult_PollAnyMode(body, type) ==
    IF ~body.parses THEN PlanQuoting(ErrDecode, body)
    ELSE LET result == ResolveURL(UnmarshalUpscaleResult(body)) IN
         IF result.URL = "" THEN PlanQuoting(ErrNoURL, body)
         ELSE IF result.ID # "" THEN Plan("poll", "", <<>>, result)
         ELSE Plan("url", "", <<>>, result)

\* faulty variant: a resolved URL is returned at once, whatever the mode
DecodeJSONResult_NoPoll(body, type) ==
    IF ~body.parses THEN PlanQuoting(ErrDecode, body)
    ELSE LET result == ResolveURL(UnmarshalUpscaleResult(body)) IN
         IF result.URL = "" THEN PlanQuoting(ErrNoURL, body)
         ELSE Plan("url", "", <<>>, result)

\* client.go:436-475  the plain JSON result
DecodeJSONResult(body, type) ==
    IF ~body.parses THEN PlanQuoting(ErrDecode, body)
    ELSE LET result == ResolveURL(UnmarshalUpscaleResult(body)) IN
         IF result.URL = "" THEN PlanQuoting(ErrNoURL, body)
         ELSE IF IsAsyncType(type)
              THEN IF result.ID = "" THEN Plan("err", ErrNoJobID, <<>>, ZeroResult)
                   ELSE Plan("poll", "", <<>>, result)
              ELSE Plan("url", "", <<>>, result)

\* faulty variant: 502 is reported like every other error status
DecodeResponse_Generic502(r, type) ==
    IF ~IsSuccessStatus(r.status) THEN PlanQuoting(ErrStatus, r.body)
    ELSE IF ~r.readOK THEN Plan("err", ErrReadBody, <<>>, ZeroResult)
    ELSE IF IsBinaryImage(r.body.data) THEN Plan("file", "", r.body.data, ZeroResult)
    ELSE IF IsBase64Response(r.body) THEN DecodeBase64Response(r.body)
    ELSE DecodeJSONResult(r.body, type)

\* client.go:254-475  the response the retry loop ended on: the status, the
\* read of the body, then the three shapes of a body in the order of the code
DecodeResponse(r, type) ==
    IF ~IsSuccessStatus(r.status)
    THEN IF r.status = StatusBadGateway
         THEN Plan("err", ErrBadGateway, <<>>, ZeroResult)
         ELSE PlanQuoting(ErrStatus, r.body)
    ELSE IF ~r.readOK THEN Plan("err", ErrReadBody, <<>>, ZeroResult)
    ELSE IF IsBinaryImage(r.body.data) THEN Plan("file", "", r.body.data, ZeroResult)
    ELSE IF IsBase64Response(r.body) THEN DecodeBase64Response(r.body)
    ELSE DecodeJSONResult(r.body, type)

(***************************************************************************)
(* State.                                                                  *)
(***************************************************************************)
VARIABLES
    pc,          \* where the goroutine of the operation stands
    dialog,      \* the confirm dialog: "none", "shown", "upscaling", "destroyed"
    image,       \* the source image (imagePath and the file behind it)
    opts,        \* the UpscaleOptions of the call
    attempt,     \* the loop variable of the retry loop
    postCount,   \* POST requests sent so far
    statuses,    \* the status of every response received to a POST, in order
    resp,        \* the last response to the POST
    tmpFiles,    \* temporary files on disk
    jobID,       \* the job polled for
    elapsed,     \* time since the poll timers were created: 0, at least one
                 \* interval (pollInterval), or at least the ceiling (pollTimeout)
    tickerC,     \* ticker.C holds a tick (a channel of capacity 1)
    pollCount,   \* poll requests sent so far
    pendingSeen, \* poll responses so far that reported status "pending"
    pollResp,    \* the last answer to a poll request
    ret,         \* what the call returned to its caller
    tmpDir,      \* os.TempDir() of the process
    resultDialog, \* the dialog that shows the upscaled image: "none", "shown", "destroyed"
    shownPath,   \* the tmpPath the result dialog was opened with
    saved,       \* "Save As..." copied the image to a file of the user
    copied,      \* "Copy to Clipboard" was clicked
    genURL,      \* the generation client: apiURL
    genCalls,    \* calls made to the generation client
    genPrompt,   \* the prompt of the last call
    genPosts,    \* HTTP requests the last call sent
    genReply,    \* the response to the request of the last call
    genRet,      \* what the last call returned
    envFiles,    \* the .env file at each path: "missing", "malformed" or "valid"
    sysDirs,     \* what os.UserHomeDir, $XDG_CONFIG_HOME and os.Executable give
    envPc,       \* where loadEnvironment stands
    envReads,    \* the paths godotenv.Load was called with, in order
    envLoaded,   \* the paths whose variables were put in the environment, in order
    reqBody,     \* the buffer behind req.Body: "none", "complete" or "consumed"
    carried,     \* the body the POST at hand went out with ("none" between POSTs)
    config,      \* the Config fields that decide whether the upscaler is configured
    isGeneratorMode,  \* App.isGeneratorMode
    generatorToggle,  \* the Generator toggle is active
    upscalerToggle,   \* the Upscaler toggle is active
    clicks       \* the toggles the user clicked, in order

vars == <<pc, dialog, image, opts, attempt, postCount, statuses, resp, tmpFiles,
          jobID, elapsed, tickerC, pollCount, pendingSeen, pollResp, ret,
          tmpDir, resultDialog, shownPath, saved, copied,
          genURL, genCalls, genPrompt, genPosts, genReply, genRet,
          envFiles, sysDirs, envPc, envReads, envLoaded, reqBody, carried,
          config, isGeneratorMode, generatorToggle, upscalerToggle, clicks>>

clientVars == <<attempt, postCount, statuses, resp, tmpFiles>>
pollVars == <<jobID, elapsed, tickerC, pollCount, pendingSeen, pollResp>>
uiVars == <<tmpDir, resultDialog, shownPath, saved, copied>>
genVars == <<genURL, genCalls, genPrompt, genPosts, genReply, genRet>>
envVars == <<envFiles, sysDirs, envPc, envReads, envLoaded>>
bodyVars == <<reqBody, carried>>
modeVars == <<config, isGeneratorMode, generatorToggle, upscalerToggle, clicks>>

NoImg == [path |-> "", exists |-> FALSE, size |-> -1]

\* the generation endpoint (FLUX_API_URL)
FluxURL == "http://flux/predictions"

\* the body of a response: the JSON value it holds ("none" for a body that is
\* not JSON, HTML or empty), and the strings of an array of strings
GenBody(json, urls) == [json |-> json, urls |-> urls]

NoGenReply == [net |-> FALSE, status |-> -1, body |-> GenBody("none", <<>>)]

NoGenReturn == [kind |-> "none", urls |-> <<>>, err |-> ""]

\* loadEnvironment has run on a system without any .env file (the variables
\* come from the process environment): every location was read, none loaded
EnvSettled ==
    /\ envFiles = [p \in {".env", "/home/u/.fluxxxer/.env", "/home/u/.config/fluxxxer/.env",
                          "/xdg/fluxxxer/.env", "/opt/fluxxxer/.env"} |-> "missing"]
    /\ sysDirs = [home |-> "/home/u", xdg |-> "", exec |-> "/opt/fluxxxer"]
    /\ envPc = "warned"
    /\ envReads = <<".env", "/home/u/.fluxxxer/.env", "/home/u/.config/fluxxxer/.env",
                    "/opt/fluxxxer/.env">>
    /\ envLoaded = <<>>

\* app.go:74, ui.go:169-175, 59  the window as it is first shown: generator
\* mode, the Generator toggle active, no click yet
WindowShown ==
    /\ isGeneratorMode = TRUE
    /\ generatorToggle = TRUE
    /\ upscalerToggle = FALSE
    /\ clicks = <<>>

\* no call to the generation client yet
GenIdle ==
    /\ genCalls = 0
    /\ genPrompt = ""
    /\ genPosts = 0
    /\ genReply = NoGenReply
    /\ genRet = NoGenReturn

Init ==
    /\ pc = "idle"
    /\ dialog = "none"
    /\ image = NoImg
    /\ opts = NoOpts
    /\ attempt = 0
    /\ postCount = 0
    /\ statuses = <<>>
    /\ resp = NoReply
    /\ tmpFiles = {}
    /\ jobID = ""
    /\ elapsed = 0
    /\ tickerC = FALSE
    /\ pollCount = 0
    /\ pendingSeen = 0
    /\ pollResp = NoReply
    /\ ret = NoReturn
    /\ tmpDir \in TempDirs
    /\ resultDialog = "none"
    /\ shownPath = ""
    /\ saved = FALSE
    /\ copied = FALSE
    /\ reqBody = "none"
    /\ carried = "none"
    /\ genURL = FluxURL
    /\ GenIdle
    /\ EnvSettled
    /\ config = [UpscalerAPIURL |-> "https://up/api/v1/upscale", UpscalerAPIKey |-> "key"]
    /\ WindowShown

(***************************************************************************)
(* The app layer (part_001).                                               *)
(***************************************************************************)
\* part_001:20-34, 37-171, 268  handleUpscaleFile shows the confirm dialog
showUpscaleConfirmDialog ==
    /\ pc = "idle" /\ dialog = "none"
    /\ \E img \in DialogImages : image' = img
    /\ dialog' = "shown"
    /\ UNCHANGED <<pc, opts, clientVars, pollVars, ret>>
    /\ UNCHANGED uiVars
    /\ UNCHANGED genVars
    /\ UNCHANGED envVars
    /\ UNCHANGED bodyVars
    /\ UNCHANGED modeVars

\* part_001:173-198  response Accept: the options are read from the widgets and
\* upscaleImage starts on its own goroutine; the dialog stays open
DialogAccept ==
    /\ dialog = "shown"
    /\ \E o \in SampleOpts : opts' = o
    /\ dialog' = "upscaling"
    /\ pc' = "validate"
    /\ UNCHANGED <<image, clientVars, pollVars, ret>>
    /\ UNCHANGED uiVars
    /\ UNCHANGED genVars
    /\ UNCHANGED envVars
    /\ UNCHANGED bodyVars
    /\ UNCHANGED modeVars

\* part_001:255-257  any other response (Cancel, closing the window) destroys
\* the dialog, also while the goroutine is running
DialogCancel ==
    /\ dialog \in {"shown", "upscaling"}
    /\ dialog' = "destroyed"
    /\ UNCHANGED <<pc, image, opts, clientVars, pollVars, ret>>
    /\ UNCHANGED uiVars
    /\ UNCHANGED genVars
    /\ UNCHANGED envVars
    /\ UNCHANGED bodyVars
    /\ UNCHANGED modeVars

\* part_001:272-284  upscaleImage: validate, then call the client
upscaleImage ==
    /\ pc = "validate"
    /\ IF PromptMissing(opts)
       THEN /\ ret' = Err(ErrPromptRequired)
            /\ pc' = "returned"
       ELSE /\ pc' = "preflight"
            /\ ret' = ret
    /\ UNCHANGED <<dialog, image, opts, clientVars, pollVars>>
    /\ UNCHANGED uiVars
    /\ UNCHANGED genVars
    /\ UNCHANGED envVars
    /\ UNCHANGED bodyVars
    /\ UNCHANGED modeVars

\* part_001:230, 289  the prefix a result URL is recognised as a local file by
LocalPrefix == "/tmp/upscaled-"

\* part_001:321  os.CreateTemp("", "upscaled-*"+ext) of the download: a name of
\* its own, with the extension of the original name
DownloadPath(dir) == dir \o "/upscaled-" \o "2" \o ".png"

\* handlers.go:233  os.CreateTemp("", "temp-image-*.png")
SourceCopyPath(dir) == dir \o "/temp-image-" \o "1" \o ".png"

\* part_001:379-467  showUpscaledImageDialog(texture, tmpPath, originalName)
showUpscaledImageDialog(tmpPath) ==
    /\ resultDialog' = "shown"
    /\ shownPath' = tmpPath

\* part_001:198-254  the callback, on the main loop: every branch destroys the
\* confirm dialog.  An error ends the operation; a result whose URL has the
\* local prefix is loaded (which can fail) and shown; any other URL goes to
\* the second half of handleUpscaledImage for the download (part_001:311-314).
Callback ==
    /\ pc = "returned" /\ dialog # "none"
    /\ dialog' = "destroyed"
    /\ IF ret.kind # "ok" \/ ret.result.URL = ""
       THEN /\ pc' = "done"
            /\ UNCHANGED <<resultDialog, shownPath>>
       ELSE IF HasPrefix(ret.result.URL, LocalPrefix)
       THEN \E loaded \in BOOLEAN :
              IF loaded
              THEN /\ showUpscaledImageDialog(ret.result.URL)
                   /\ pc' = "display"
              ELSE /\ pc' = "done"
                   /\ UNCHANGED <<resultDialog, shownPath>>
       ELSE /\ pc' = "download"
            /\ UNCHANGED <<resultDialog, shownPath>>
    /\ UNCHANGED <<image, opts, clientVars, pollVars, ret, tmpDir, saved, copied>>
    /\ UNCHANGED genVars
    /\ UNCHANGED envVars
    /\ UNCHANGED bodyVars
    /\ UNCHANGED modeVars

\* part_001:314-375  the download goroutine of handleUpscaledImage: a temporary
\* file is created, the URL is fetched into it and the file is loaded; every
\* failure after os.CreateTemp returns with the file in place
handleUpscaledImage ==
    /\ pc = "download"
    /\ \E outcome \in {"create failed", "get failed", "bad status", "copy failed",
                        "load failed", "loaded"} :
         /\ \/ HasPrefix(ret.result.URL, "http://")
            \/ HasPrefix(ret.result.URL, "https://")
            \/ outcome \in {"create failed", "get failed"}
         /\ IF outcome = "create failed"
            THEN /\ pc' = "done"
                 /\ UNCHANGED <<tmpFiles, resultDialog, shownPath>>
            ELSE /\ tmpFiles' = tmpFiles \cup
                       {[path |-> DownloadPath(tmpDir),
                         data |-> IF outcome \in {"load failed", "loaded"}
                                  THEN PNGBytes ELSE <<>>]}
                 /\ IF outcome = "loaded"
                    THEN /\ showUpscaledImageDialog(DownloadPath(tmpDir))
                         /\ pc' = "display"
                    ELSE /\ pc' = "done"
                         /\ UNCHANGED <<resultDialog, shownPath>>
    /\ UNCHANGED <<dialog, image, opts, attempt, postCount, statuses, resp, pollVars,
                   ret, tmpDir, saved, copied>>
    /\ UNCHANGED genVars
    /\ UNCHANGED envVars
    /\ UNCHANGED bodyVars
    /\ UNCHANGED modeVars

\* part_001:427-429, 470-540, 574-616  "Save As...": the file chooser, then
\* copyFile on its own goroutine; copyFile removes its own *.tmp file on every
\* path.  The result dialog stays open.
saveUpscaledImage ==
    /\ resultDialog = "shown" /\ ~saved
    /\ \E ok \in BOOLEAN : saved' = ok
    /\ \E f \in tmpFiles : f.path = shownPath
    /\ UNCHANGED <<pc, dialog, image, opts, clientVars, pollVars, ret, tmpDir,
                   resultDialog, shownPath, copied>>
    /\ UNCHANGED genVars
    /\ UNCHANGED envVars
    /\ UNCHANGED bodyVars
    /\ UNCHANGED modeVars

\* part_001:433-436  "Copy to Clipboard"
copyImageToClipboard ==
    /\ resultDialog = "shown" /\ ~copied
    /\ copied' = TRUE
    /\ UNCHANGED <<pc, dialog, image, opts, clientVars, pollVars, ret, tmpDir,
                   resultDialog, shownPath, saved>>
    /\ UNCHANGED genVars
    /\ UNCHANGED envVars
    /\ UNCHANGED bodyVars
    /\ UNCHANGED modeVars

\* part_001:440-442  the Close button: dialog.Destroy(), which emits no response
CloseClicked ==
    /\ resultDialog = "shown"
    /\ resultDialog' = "destroyed"
    /\ pc' = "done"
    /\ UNCHANGED <<dialog, image, opts, clientVars, pollVars, ret, tmpDir,
                   shownPath, saved, copied>>
    /\ UNCHANGED genVars
    /\ UNCHANGED envVars
    /\ UNCHANGED bodyVars
    /\ UNCHANGED modeVars

\* part_001:456-460  a response of the result dialog (the window is closed,
\* Escape): os.Remove(tmpPath), then dialog.Destroy()
ResultDialogResponse ==
    /\ resultDialog = "shown"
    /\ tmpFiles' = { f \in tmpFiles : f.path # shownPath }
    /\ resultDialog' = "destroyed"
    /\ pc' = "done"
    /\ UNCHANGED <<dialog, image, opts, attempt, postCount, statuses, resp, pollVars,
                   ret, tmpDir, shownPath, saved, copied>>
    /\ UNCHANGED genVars
    /\ UNCHANGED envVars
    /\ UNCHANGED bodyVars
    /\ UNCHANGED modeVars

\* handlers.go:222-238  the Upscale button under an image of the gallery: a
\* temporary file is created for a copy of the image
upscaleFromGallery ==
    /\ pc = "idle" /\ dialog = "none" /\ tmpFiles = {}
    /\ tmpFiles' = {[path |-> SourceCopyPath(tmpDir), data |-> <<>>]}
    /\ pc' = "fetch"
    /\ UNCHANGED <<dialog, image, opts, attempt, postCount, statuses, resp, pollVars,
                   ret, uiVars>>
    /\ UNCHANGED genVars
    /\ UNCHANGED envVars
    /\ UNCHANGED bodyVars
    /\ UNCHANGED modeVars

\* handlers.go:240-256  downloadAndSaveImage on its own goroutine: a failure
\* removes the temporary file; otherwise handleUpscaleFile(tmpPath) shows the
\* confirm dialog for the copy (part_001:20-34)
downloadAndSaveImage ==
    /\ pc = "fetch"
    /\ \E ok \in BOOLEAN :
         IF ok
         THEN /\ \E img \in DialogImages :
                   image' = [img EXCEPT !.path = SourceCopyPath(tmpDir)]
              /\ tmpFiles' = {[path |-> SourceCopyPath(tmpDir), data |-> PNGBytes]}
              /\ dialog' = "shown"
         ELSE /\ tmpFiles' = {}
              /\ UNCHANGED <<image, dialog>>
    /\ pc' = "idle"
    /\ UNCHANGED <<opts, attempt, postCount, statuses, resp, pollVars, ret, uiVars>>
    /\ UNCHANGED genVars
    /\ UNCHANGED envVars
    /\ UNCHANGED bodyVars
    /\ UNCHANGED modeVars

(***************************************************************************)
(* Client.UpscaleImageFromPath (client.go:98-476).                         *)
(***************************************************************************)
\* a caller other than the dialog calls the exported method with its own arguments
CallClient ==
    /\ pc = "idle" /\ dialog = "none"
    /\ \E img \in SampleImages : image' = img
    /\ \E o \in SampleOpts : opts' = o
    /\ pc' = "preflight"
    /\ UNCHANGED <<dialog, clientVars, pollVars, ret>>
    /\ UNCHANGED uiVars
    /\ UNCHANGED genVars
    /\ UNCHANGED envVars
    /\ UNCHANGED bodyVars
    /\ UNCHANGED modeVars

\* faulty variant: an image of exactly the ceiling is rejected as well
PreflightError_AtLimit(img) ==
    IF img.path = "" THEN ErrEmptyPath
    ELSE IF ~img.exists THEN ErrOpen
    ELSE IF img.size = 0 THEN ErrEmptyFile
    ELSE IF img.size >= maxSizeBytes THEN ErrTooLarge
    ELSE ""

\* client.go:99-126  the checks made before the request is built
PreflightError(img) ==
    IF img.path = "" THEN ErrEmptyPath
    ELSE IF ~img.exists THEN ErrOpen
    ELSE IF img.size = 0 THEN ErrEmptyFile
    ELSE IF img.size > maxSizeBytes THEN ErrTooLarge
    ELSE ""

\* client.go:99-228  checks, the multipart body, the request; then attempt := 1
Preflight ==
    /\ pc = "preflight"
    /\ IF PreflightError(image) # ""
       THEN /\ ret' = Err(PreflightError(image))
            /\ pc' = "returned"
            /\ attempt' = attempt
       ELSE /\ attempt' = 1
            /\ pc' = "send"
            /\ ret' = ret
    /\ reqBody' = IF PreflightError(image) # "" THEN reqBody ELSE "complete"
    /\ carried' = carried
    /\ UNCHANGED <<dialog, image, opts, postCount, statuses, resp, tmpFiles, pollVars>>
    /\ UNCHANGED uiVars
    /\ UNCHANGED genVars
    /\ UNCHANGED envVars
    /\ UNCHANGED modeVars

\* faulty variant: a transport error is retried like a server error
TransportErrorRetried_LikeServerError(n) == n < maxRetries

\* client.go:231-233  a transport error returns, on whichever attempt
TransportErrorRetried(n) == FALSE

\* what httpClient.Do can do with the body of req.  req.Body is the
\* bytes.Buffer of client.go:132 behind a NopCloser (http.NewRequest, line
\* 193); sending the request reads the buffer to its end and nothing in the
\* loop refills it.  A complete buffer goes out complete.  With a consumed
\* buffer and the Content-Length of the first attempt, net/http leaves three
\* outcomes to the connection: the write fails before anything is sent
\* ("nothing", a transport error), the request goes out with an empty body
\* ("empty"), or the transport itself rewinds the body through req.GetBody
\* on a reused connection ("complete").
BodiesCarried(buffer) ==
    IF buffer = "complete" THEN {"complete"} ELSE {"nothing", "empty", "complete"}

\* client.go:230-233  httpClient.Do(req): one POST and its outcome
DoRequest ==
    /\ pc = "send"
    /\ postCount' = postCount + 1
    /\ reqBody' = "consumed"
    /\ \E r \in PostReplies, c \in BodiesCarried(reqBody) :
         /\ c = "nothing" => ~r.net
         /\ carried' = c
         /\ IF ~r.net
            THEN /\ IF TransportErrorRetried(attempt)
                    THEN /\ attempt' = attempt + 1
                         /\ pc' = "send"
                         /\ ret' = ret
                    ELSE /\ ret' = Err(ErrRequest)
                         /\ pc' = "returned"
                         /\ attempt' = attempt
                 /\ UNCHANGED <<resp, statuses>>
            ELSE /\ resp' = r
                 /\ statuses' = Append(statuses, r.status)
                 /\ pc' = "check"
                 /\ ret' = ret
                 /\ attempt' = attempt
    /\ UNCHANGED <<dialog, image, opts, tmpFiles, pollVars>>
    /\ UNCHANGED uiVars
    /\ UNCHANGED genVars
    /\ UNCHANGED envVars
    /\ UNCHANGED modeVars

\* client.go:235-246  close the body, back off and go round again, or leave the loop
RetryOrBreak ==
    /\ pc = "check"
    /\ IF ShouldRetry(resp.status, attempt)
       THEN /\ attempt' = attempt + 1
            /\ pc' = "send"
       ELSE /\ attempt' = attempt
            /\ pc' = "decode"
    /\ carried' = "none"
    /\ reqBody' = reqBody
    /\ UNCHANGED <<dialog, image, opts, postCount, statuses, resp, tmpFiles, pollVars, ret>>
    /\ UNCHANGED uiVars
    /\ UNCHANGED genVars
    /\ UNCHANGED envVars
    /\ UNCHANGED modeVars

\* client.go:308-333, 411-433  os.CreateTemp and the write of the image bytes,
\* either of which can fail; a failed write removes the file again
StoreImage(data) ==
    \E created \in BOOLEAN, written \in BOOLEAN :
        IF ~created
        THEN /\ ret' = Err(ErrCreateTemp)
             /\ tmpFiles' = tmpFiles
        ELSE IF ~written
        THEN /\ ret' = Err(ErrWriteTemp)
             /\ tmpFiles' = tmpFiles
        ELSE /\ tmpFiles' = tmpFiles \cup {[path |-> TempPath(tmpDir, ImageExt(data)), data |-> data]}
             /\ ret' = Ok([ZeroResult EXCEPT !.URL = TempPath(tmpDir, ImageExt(data)),
                                             !.IsCompleted = TRUE])

\* client.go:519-529  pollForResultID up to the loop: the timers are created
StartPoll(id) ==
    IF id = ""
    THEN /\ ret' = Err("job ID cannot be empty")
         /\ pc' = "returned"
         /\ UNCHANGED pollVars
    ELSE /\ jobID' = id
         /\ elapsed' = 0
         /\ tickerC' = TickerAtStart
         /\ pc' = "select"
         /\ UNCHANGED <<pollCount, pendingSeen, pollResp, ret>>

\* client.go:248-475  the response the loop ended on is decoded
HandleResponse ==
    /\ pc = "decode"
    /\ LET plan == DecodeResponse(resp, opts.Type) IN
       CASE plan.kind = "err" ->
              /\ ret' = [Err(plan.err) EXCEPT !.quoted = plan.quoted]
              /\ pc' = "returned"
              /\ UNCHANGED <<tmpFiles, pollVars>>
         [] plan.kind = "file" ->
              /\ StoreImage(plan.data)
              /\ pc' = "returned"
              /\ UNCHANGED pollVars
         [] plan.kind = "url" ->
              /\ ret' = Ok(plan.result)
              /\ pc' = "returned"
              /\ UNCHANGED <<tmpFiles, pollVars>>
         [] plan.kind = "poll" ->
              /\ StartPoll(plan.result.ID)
              /\ UNCHANGED tmpFiles
    /\ UNCHANGED <<dialog, image, opts, attempt, postCount, statuses, resp>>
    /\ UNCHANGED uiVars
    /\ UNCHANGED genVars
    /\ UNCHANGED envVars
    /\ UNCHANGED bodyVars
    /\ UNCHANGED modeVars

(***************************************************************************)
(* Client.pollForResultID (client.go:519-604).                             *)
(***************************************************************************)
Polling == pc \in {"select", "polling"}

\* one more polling interval has passed: the ticker puts a tick in its channel
\* (or drops it when the channel is full)
IntervalElapses ==
    /\ Polling
    /\ elapsed' = IF elapsed < pollInterval THEN pollInterval ELSE elapsed
    /\ tickerC' = TRUE
    /\ UNCHANGED <<pc, dialog, image, opts, clientVars, jobID, pollCount, pendingSeen,
                   pollResp, ret>>
    /\ UNCHANGED uiVars
    /\ UNCHANGED genVars
    /\ UNCHANGED envVars
    /\ UNCHANGED bodyVars
    /\ UNCHANGED modeVars

\* the ceiling has passed: the timeout channel is ready from now on; the
\* intervals before it have passed too
CeilingElapses ==
    /\ Polling
    /\ elapsed < pollTimeout
    /\ elapsed' = pollTimeout
    /\ tickerC' = TRUE
    /\ UNCHANGED <<pc, dialog, image, opts, clientVars, jobID, pollCount, pendingSeen,
                   pollResp, ret>>
    /\ UNCHANGED uiVars
    /\ UNCHANGED genVars
    /\ UNCHANGED envVars
    /\ UNCHANGED bodyVars
    /\ UNCHANGED modeVars

\* client.go:534-549  select takes the tick and the poll request is sent
PollSend ==
    /\ pc = "select"
    /\ tickerC
    /\ pollCount < MaxPolls
    /\ tickerC' = FALSE
    /\ pollCount' = pollCount + 1
    /\ pc' = "polling"
    /\ UNCHANGED <<dialog, image, opts, clientVars, jobID, elapsed, pendingSeen, pollResp, ret>>
    /\ UNCHANGED uiVars
    /\ UNCHANGED genVars
    /\ UNCHANGED envVars
    /\ UNCHANGED bodyVars
    /\ UNCHANGED modeVars

\* a 200 answer that reports a job still running
IsPendingReply(r) ==
    /\ r.net /\ r.readOK /\ r.status = StatusOK /\ r.body.parses
    /\ r.body.doc.Status = "pending"
    /\ ~PollCompletes(UnmarshalUpscaleResult(r.body))
    /\ ~PollFails(UnmarshalUpscaleResult(r.body))

\* client.go:549-598  what one answer to a poll request makes of the loop:
\* it returns a result ("ok"), returns an error ("err") or goes round ("continue")
PollOutcome(r) ==
    IF ~r.net THEN Err(ErrPollRequest)
    ELSE IF ~r.readOK THEN Err(ErrPollRead)
    ELSE IF r.status # StatusOK THEN [NoReturn EXCEPT !.kind = "continue"]
    ELSE IF ~r.body.parses THEN [NoReturn EXCEPT !.kind = "continue"]
    ELSE LET result == UnmarshalUpscaleResult(r.body) IN
         IF PollCompletes(result) THEN Ok(PollResolveURL(result))
         ELSE IF PollFails(result) THEN Err(ErrJobFailed(result.Error))
         ELSE [NoReturn EXCEPT !.kind = "continue"]

\* client.go:549-598  the answer to the poll request arrives and is handled
PollReceive ==
    /\ pc = "polling"
    /\ \E r \in PollReplies :
         /\ pollResp' = r
         /\ pendingSeen' = IF IsPendingReply(r) THEN pendingSeen + 1 ELSE pendingSeen
         /\ IF PollOutcome(r).kind = "continue"
            THEN /\ pc' = "select"
                 /\ ret' = ret
            ELSE /\ pc' = "returned"
                 /\ ret' = PollOutcome(r)
    /\ UNCHANGED <<dialog, image, opts, clientVars, jobID, elapsed, tickerC, pollCount>>
    /\ UNCHANGED uiVars
    /\ UNCHANGED genVars
    /\ UNCHANGED envVars
    /\ UNCHANGED bodyVars
    /\ UNCHANGED modeVars

\* client.go:600-601  select takes the timeout
PollTimeout ==
    /\ pc = "select"
    /\ TimeoutReady(elapsed)
    /\ ret' = Err(ErrPollTimeout)
    /\ pc' = "returned"
    /\ UNCHANGED <<dialog, image, opts, clientVars, pollVars>>
    /\ UNCHANGED uiVars
    /\ UNCHANGED genVars
    /\ UNCHANGED envVars
    /\ UNCHANGED bodyVars
    /\ UNCHANGED modeVars

(***************************************************************************)
(* The generation client (package flux): the simpler GenerateImages        *)
(* (part_002) and GenerateImagesWithOptions (part_003), which the app      *)
(* calls.  One action is one call: the request, its response, the return.  *)
(***************************************************************************)
\* most calls explored
MaxGenCalls == 2

SampleGenBodies ==
    { GenBody("array", <<URL1, URL2>>),     \* ["http://...", "https://..."]
      GenBody("array", <<>>),               \* []
      GenBody("null", <<>>),                \* null
      GenBody("object", <<>>),              \* {"detail":"..."}
      GenBody("numbers", <<>>),             \* [1, 2]
      GenBody("none", <<>>) }               \* an HTML page, an empty body

\* what the POST of a generation request can yield
GenReplies ==
    { [net |-> FALSE, status |-> 0, body |-> GenBody("none", <<>>)] }
    \cup { [net |-> TRUE, status |-> s, body |-> b] :
             s \in {200, 201, 404, 500, 502}, b \in SampleGenBodies }

\* part_002:46-47, part_003:105-106  json.NewDecoder(resp.Body).Decode(&urls)
\* with urls a []string: an array of strings fills it, null leaves it nil,
\* every other body is an error
DecodeURLs(body) ==
    IF body.json = "array" THEN [ok |-> TRUE, urls |-> body.urls]
    ELSE IF body.json = "null" THEN [ok |-> TRUE, urls |-> <<>>]
    ELSE [ok |-> FALSE, urls |-> <<>>]

GenOk(urls) == [kind |-> "ok", urls |-> urls, err |-> ""]
GenErr(msg) == [kind |-> "err", urls |-> <<>>, err |-> msg]

\* the errors of net/http and encoding/json, before any wrapping
ErrTransport == "transport error"
ErrJSON == "json error"
ErrGenPrompt == "prompt cannot be empty"
ErrGenNoURL == "API URL not configured"
ErrGenRequest == "request failed: " \o ErrTransport
ErrGenStatus == "API returned non-200 status code"
ErrGenDecode == "failed to decode response: " \o ErrJSON

\* part_002:20-52  GenerateImages of the simpler client: http.Post, then the
\* body is decoded; the status of the response is not read.  http.Post to an
\* empty URL fails before anything is sent.
GenerateImages ==
    /\ genCalls < MaxGenCalls
    /\ genCalls' = genCalls + 1
    /\ \E prompt \in {"", "cat"}, r \in GenReplies :
         /\ genPrompt' = prompt
         /\ IF genURL = ""
            THEN /\ genPosts' = 0
                 /\ genReply' = NoGenReply
                 /\ genRet' = GenErr(ErrTransport)
            ELSE /\ genPosts' = 1
                 /\ genReply' = r
                 /\ genRet' = IF ~r.net THEN GenErr(ErrTransport)
                              ELSE IF ~DecodeURLs(r.body).ok THEN GenErr(ErrJSON)
                              ELSE GenOk(DecodeURLs(r.body).urls)
    /\ UNCHANGED genURL
    /\ UNCHANGED <<pc, dialog, image, opts, clientVars, pollVars, ret, uiVars>>
    /\ UNCHANGED envVars
    /\ UNCHANGED bodyVars
    /\ UNCHANGED modeVars

\* part_003:61-111  GenerateImagesWithOptions: the checks of the prompt and
\* of the URL, one request, the status, then the body
GenerateImagesWithOptions ==
    /\ genCalls < MaxGenCalls
    /\ genCalls' = genCalls + 1
    /\ \E prompt \in {"", "cat"}, r \in GenReplies :
         /\ genPrompt' = prompt
         /\ IF prompt = "" \/ genURL = ""
            THEN /\ genPosts' = 0
                 /\ genReply' = NoGenReply
                 /\ genRet' = IF prompt = "" THEN GenErr(ErrGenPrompt)
                              ELSE GenErr(ErrGenNoURL)
            ELSE /\ genPosts' = 1
                 /\ genReply' = r
                 /\ genRet' = IF ~r.net THEN GenErr(ErrGenRequest)
                              ELSE IF r.status # StatusOK THEN GenErr(ErrGenStatus)
                              ELSE IF ~DecodeURLs(r.body).ok THEN GenErr(ErrGenDecode)
                              ELSE GenOk(DecodeURLs(r.body).urls)
    /\ UNCHANGED genURL
    /\ UNCHANGED <<pc, dialog, image, opts, clientVars, pollVars, ret, uiVars>>
    /\ UNCHANGED envVars
    /\ UNCHANGED bodyVars
    /\ UNCHANGED modeVars

(***************************************************************************)
(* loadEnvironment (cmd/fluxxxer/main.go:37-78).                           *)
(***************************************************************************)
\* main.go:40  godotenv.Load() reads ".env" of the working directory
CwdEnvPath == ".env"
\* main.go:47  filepath.Join(home, ".fluxxxer", ".env")
HomeEnvPath(home) == home \o "/.fluxxxer/.env"
\* main.go:60  filepath.Join(xdgConfig, "fluxxxer", ".env")
XDGEnvPath(xdgConfig) == xdgConfig \o "/fluxxxer/.env"
\* main.go:69-70  filepath.Join(filepath.Dir(execPath), ".env")
ExecEnvPath(execDir) == execDir \o "/.env"

\* what the system calls return: the home directory ("" when os.UserHomeDir
\* fails), $XDG_CONFIG_HOME ("" when unset), the directory of the executable
\* ("" when os.Executable fails)
SampleSysDirs ==
    { [home |-> h, xdg |-> x, exec |-> e] :
        h \in {"", "/home/u"}, x \in {"", "/xdg"}, e \in {"", "/opt/fluxxxer"} }

\* main.go:54-57  the XDG config directory: $XDG_CONFIG_HOME, or ~/.config
XDGConfig(d) ==
    IF d.xdg = "" /\ d.home # "" THEN d.home \o "/.config" ELSE d.xdg

\* every path a .env file may be looked for at
EnvPaths ==
    {CwdEnvPath}
    \cup { HomeEnvPath(d.home) : d \in { e \in SampleSysDirs : e.home # "" } }
    \cup { XDGEnvPath(XDGConfig(d)) : d \in { e \in SampleSysDirs : XDGConfig(e) # "" } }
    \cup { ExecEnvPath(d.exec) : d \in { e \in SampleSysDirs : e.exec # "" } }

\* godotenv.Load(path): nil when the file is read and parsed; a missing file
\* and a file that does not parse are errors and set no variable
LoadSucceeds(path) == envFiles[path] = "valid"

\* faulty variant: a successful load does not end the search
AfterLoad_NoReturn(ok, next) == next

\* main.go:40-42, 48-50, 61-63, 71-73  if err == nil { return }
AfterLoad(ok, next) == IF ok THEN "done" ELSE next

\* one call of godotenv.Load(path) and what follows it
TryLoad(path, next) ==
    /\ envReads' = Append(envReads, path)
    /\ envLoaded' = IF LoadSucceeds(path) THEN Append(envLoaded, path) ELSE envLoaded
    /\ envPc' = AfterLoad(LoadSucceeds(path), next)

\* a location that is not looked at
SkipTo(next) ==
    /\ envPc' = next
    /\ UNCHANGED <<envReads, envLoaded>>

\* main.go:40-42  the working directory
LoadCwd ==
    /\ envPc = "cwd"
    /\ TryLoad(CwdEnvPath, "home")
    /\ UNCHANGED <<envFiles, sysDirs>>
    /\ UNCHANGED <<pc, dialog, image, opts, clientVars, pollVars, ret, uiVars, genVars>>
    /\ UNCHANGED bodyVars
    /\ UNCHANGED modeVars

\* main.go:45-51  the home directory, when there is one
LoadHome ==
    /\ envPc = "home"
    /\ IF sysDirs.home # ""
       THEN TryLoad(HomeEnvPath(sysDirs.home), "xdg")
       ELSE SkipTo("xdg")
    /\ UNCHANGED <<envFiles, sysDirs>>
    /\ UNCHANGED <<pc, dialog, image, opts, clientVars, pollVars, ret, uiVars, genVars>>
    /\ UNCHANGED bodyVars
    /\ UNCHANGED modeVars

\* main.go:54-64  the XDG config directory, when there is one
LoadXDG ==
    /\ envPc = "xdg"
    /\ IF XDGConfig(sysDirs) # ""
       THEN TryLoad(XDGEnvPath(XDGConfig(sysDirs)), "exec")
       ELSE SkipTo("exec")
    /\ UNCHANGED <<envFiles, sysDirs>>
    /\ UNCHANGED <<pc, dialog, image, opts, clientVars, pollVars, ret, uiVars, genVars>>
    /\ UNCHANGED bodyVars
    /\ UNCHANGED modeVars

\* main.go:67-77  the directory of the executable, when it is known; then the
\* warning that no file was found
LoadExec ==
    /\ envPc = "exec"
    /\ IF sysDirs.exec # ""
       THEN TryLoad(ExecEnvPath(sysDirs.exec), "warned")
       ELSE SkipTo("warned")
    /\ UNCHANGED <<envFiles, sysDirs>>
    /\ UNCHANGED <<pc, dialog, image, opts, clientVars, pollVars, ret, uiVars, genVars>>
    /\ UNCHANGED bodyVars
    /\ UNCHANGED modeVars

(***************************************************************************)
(* The mode switcher (app.go:93-121, ui.go:163-204).  A toggle button      *)
(* emits "toggled" from inside SetActive when its state changes, and the   *)
(* handlers run before SetActive returns; SetActive with the state the     *)
(* button already has does nothing.  The widgets are the record            *)
(* [g, u, mode]: the two toggles and App.isGeneratorMode.                  *)
(***************************************************************************)
\* most clicks explored
MaxClicks == 6

\* config.go:182-184
IsUpscalerConfigured(c) == c.UpscalerAPIURL # "" /\ c.UpscalerAPIKey # ""

\* the values of UPSCALER_API_URL and UPSCALER_API_KEY (config.go:42-43)
SampleConfigs ==
    { [UpscalerAPIURL |-> u, UpscalerAPIKey |-> k] :
        u \in {"", "https://up/api/v1/upscale"}, k \in {"", "key"} }

RECURSIVE GeneratorSetActive(_, _, _)
RECURSIVE UpscalerSetActive(_, _, _)
RECURSIVE setMode(_, _, _)

\* faulty variant: the handler does not re-activate a toggle that was clicked off
generatorToggled_NoRadio(w, c) ==
    IF w.g THEN setMode(UpscalerSetActive(w, FALSE, c), TRUE, c)
    ELSE w

\* ui.go:188-195  the "toggled" handler of the Generator toggle
generatorToggled(w, c) ==
    IF w.g THEN setMode(UpscalerSetActive(w, FALSE, c), TRUE, c)
    ELSE IF ~w.u THEN GeneratorSetActive(w, TRUE, c)
    ELSE w

\* ui.go:197-204  the "toggled" handler of the Upscaler toggle
upscalerToggled(w, c) ==
    IF w.u THEN setMode(GeneratorSetActive(w, FALSE, c), FALSE, c)
    ELSE IF ~w.g THEN UpscalerSetActive(w, TRUE, c)
    ELSE w

\* generatorToggle.SetActive(x)
GeneratorSetActive(w, x, c) ==
    IF w.g = x THEN w ELSE generatorToggled([w EXCEPT !.g = x], c)

\* upscalerToggle.SetActive(x)
UpscalerSetActive(w, x, c) ==
    IF w.u = x THEN w ELSE upscalerToggled([w EXCEPT !.u = x], c)

\* app.go:94-116  setMode: the field, the two toggles, then the revert to
\* generator mode when upscaler mode was asked for without a configuration
setMode(w, mode, c) ==
    LET set == UpscalerSetActive(GeneratorSetActive([w EXCEPT !.mode = mode], mode, c),
                                 ~mode, c)
    IN  IF mode \/ IsUpscalerConfigured(c) THEN set ELSE setMode(set, TRUE, c)

\* the widgets now
Widgets == [g |-> generatorToggle, u |-> upscalerToggle, mode |-> isGeneratorMode]

\* the state after a click is what the handlers leave
Become(w) ==
    /\ generatorToggle' = w.g
    /\ upscalerToggle' = w.u
    /\ isGeneratorMode' = w.mode

\* a click on the Generator toggle: the button changes state and emits "toggled"
ClickGenerator ==
    /\ Len(clicks) < MaxClicks
    /\ clicks' = Append(clicks, "generator")
    /\ Become(GeneratorSetActive(Widgets, ~generatorToggle, config))
    /\ UNCHANGED config
    /\ UNCHANGED <<pc, dialog, image, opts, clientVars, pollVars, ret, uiVars, genVars,
                   envVars, bodyVars>>

\* a click on the Upscaler toggle, which is insensitive (ui.go:177-181) and
\* takes no click when the upscaler is not configured
ClickUpscaler ==
    /\ Len(clicks) < MaxClicks
    /\ IsUpscalerConfigured(config)
    /\ clicks' = Append(clicks, "upscaler")
    /\ Become(UpscalerSetActive(Widgets, ~upscalerToggle, config))
    /\ UNCHANGED config
    /\ UNCHANGED <<pc, dialog, image, opts, clientVars, pollVars, ret, uiVars, genVars,
                   envVars, bodyVars>>

(***************************************************************************)
(* The specification.                                                      *)
(***************************************************************************)
Next ==
    \/ showUpscaleConfirmDialog
    \/ DialogAccept
    \/ DialogCancel
    \/ upscaleImage
    \/ Callback
    \/ handleUpscaledImage
    \/ saveUpscaledImage
    \/ copyImageToClipboard
    \/ CloseClicked
    \/ ResultDialogResponse
    \/ upscaleFromGallery
    \/ downloadAndSaveImage
    \/ CallClient
    \/ Preflight
    \/ DoRequest
    \/ RetryOrBreak
    \/ HandleResponse
    \/ IntervalElapses
    \/ CeilingElapses
    \/ PollSend
    \/ PollReceive
    \/ PollTimeout

Spec == Init /\ [][Next]_vars

\* the upscaler and its dialogs before anything happened
UpscalerIdle ==
    /\ pc = "idle"
    /\ dialog = "none"
    /\ image = NoImg
    /\ opts = NoOpts
    /\ attempt = 0
    /\ postCount = 0
    /\ statuses = <<>>
    /\ resp = NoReply
    /\ tmpFiles = {}
    /\ jobID = ""
    /\ elapsed = 0
    /\ tickerC = FALSE
    /\ pollCount = 0
    /\ pendingSeen = 0
    /\ pollResp = NoReply
    /\ ret = NoReturn
    /\ tmpDir = "/tmp"
    /\ resultDialog = "none"
    /\ shownPath = ""
    /\ saved = FALSE
    /\ copied = FALSE
    /\ reqBody = "none"
    /\ carried = "none"

\* calls to the generation client, with FLUX_API_URL set or not
GenInit ==
    /\ UpscalerIdle
    /\ EnvSettled
    /\ config = [UpscalerAPIURL |-> "", UpscalerAPIKey |-> ""]
    /\ WindowShown
    /\ genURL \in {"", FluxURL}
    /\ GenIdle

GenNext ==
    \/ GenerateImages
    \/ GenerateImagesWithOptions

GenSpec == GenInit /\ [][GenNext]_vars

\* the start of the process: loadEnvironment on every layout of .env files
EnvInit ==
    /\ UpscalerIdle
    /\ genURL = FluxURL
    /\ GenIdle
    /\ envFiles \in [EnvPaths -> {"missing", "malformed", "valid"}]
    /\ sysDirs \in SampleSysDirs
    /\ envPc = "cwd"
    /\ envReads = <<>>
    /\ envLoaded = <<>>
    /\ config = [UpscalerAPIURL |-> "", UpscalerAPIKey |-> ""]
    /\ WindowShown

EnvNext ==
    \/ LoadCwd
    \/ LoadHome
    \/ LoadXDG
    \/ LoadExec

EnvSpec == EnvInit /\ [][EnvNext]_vars

\* the mode switcher, with and without a configured upscaler
ModeInit ==
    /\ UpscalerIdle
    /\ genURL = FluxURL
    /\ GenIdle
    /\ EnvSettled
    /\ config \in SampleConfigs
    /\ WindowShown

ModeNext ==
    \/ ClickGenerator
    \/ ClickUpscaler

ModeSpec == ModeInit /\ [][ModeNext]_vars

\* Scheduling the code can count on: time passes, so the ceiling is reached;
\* httpClient.Do returns (the client has a 30 s timeout, client.go:91); select
\* picks among its ready cases at random, so a case that is ready again and
\* again is taken in the end.
FairSpec ==
    /\ Spec
    /\ WF_vars(CeilingElapses)
    /\ WF_vars(PollReceive)
    /\ SF_vars(PollTimeout)

(***************************************************************************)
(* Properties.                                                             *)
(***************************************************************************)
\* the temporary files of the client and of the download, i.e. all but the
\* copy of the source image
UpscaledFiles == { f \in tmpFiles : f.path # SourceCopyPath(tmpDir) }

\* the client has just returned: the UI has not yet acted on the result
JustReturned == pc = "returned"

\* the retry loop is over
LoopLeft == pc \in {"decode", "select", "polling", "returned", "done", "download", "display"}
\* the call has returned
Returned == pc \in {"returned", "done", "download", "display"}

\* C1: the upscale POST is sent at most 3 times; a POST other than the first
\* is sent only when the response to the previous one had a 5xx status, so a
\* 2xx or a 4xx is never followed by another attempt.
C1_RetryOnlyAfterServerError ==
    [][postCount' # postCount =>
          /\ postCount' = postCount + 1
          /\ postCount' <= 3
          /\ (postCount > 0 =>
                /\ Len(statuses) = postCount
                /\ resp.status = statuses[postCount]
                /\ resp.status >= 500 /\ resp.status <= 599)]_vars

\* C1 witness: three POSTs were sent, the first two answered by a server error
C1_Witness ==
    /\ postCount = 3 /\ pc = "decode"
    /\ statuses[1] = 500 /\ statuses[2] = 502 /\ statuses[3] = 404

\* the returned result is the one decoded from the response r, on the paths
\* that do not poll: the JSON result with its resolved URL, or a temporary file
\* that holds the image bytes of r
DecodedFrom(r) ==
    /\ ret.kind = "ok"
    /\ \/ /\ r.body.parses /\ ~IsBase64Response(r.body)
          /\ ret.result = ResolveURL(UnmarshalUpscaleResult(r.body))
       \/ /\ IsBinaryImage(r.body.data)
          /\ JustReturned =>
                \E f \in UpscaledFiles : f.path = ret.result.URL /\ f.data = r.body.data
       \/ /\ IsBase64Response(r.body)
          /\ JustReturned =>
                \E f \in UpscaledFiles : f.path = ret.result.URL
                                          /\ f.data = DecodeResponse(r, opts.Type).data

\* C2: k < 3 responses with a 5xx status (502, 502) followed by a 200: after
\* each 5xx another attempt is made, the 200 is the last attempt (k + 1
\* POSTs in all), and what is returned is decoded from the 200 response.
C2_RetriesThenReturns200 ==
    LET n == Len(statuses) IN
    (n >= 1 /\ pc # "check" /\ \A i \in 1..(n - 1) : statuses[i] >= 500) =>
        /\ (statuses[n] >= 500 /\ n < 3) => (pc = "send" \/ ret = Err(ErrRequest))
        /\ statuses[n] = StatusOK =>
              /\ n <= 3 /\ postCount = n /\ LoopLeft
              /\ resp.status = StatusOK
              /\ (Returned /\ ret.kind = "ok" /\ pollCount = 0) => DecodedFrom(resp)
              /\ (Returned /\ ret.kind = "err") =>
                     \/ ret.err = DecodeResponse(resp, opts.Type).err
                     \/ ret.err \in {ErrCreateTemp, ErrWriteTemp}
                     \/ pollCount > 0 \/ jobID # ""

\* C2 witness: 502, 502, 200 and the decoded URL is returned
C2_Witness ==
    /\ statuses = <<502, 502, 200>> /\ postCount = 3
    /\ Returned /\ ret.kind = "ok" /\ ret.result.URL = URL1 /\ pollCount = 0

\* a poll attempt that failed: no response, a response that could not be read,
\* or a status other than 200
FailedPollAttempt(r) == ~r.net \/ ~r.readOK \/ r.status # StatusOK

\* C3: a transport-level failure or a non-success status on one poll attempt
\* never ends the polling loop: the loop goes back to waiting for the next tick
\* (stated for requests that carry the prompt their mode needs).
C3_FailedPollAttemptContinues ==
    [][(pc = "polling" /\ pc' # "polling" /\ ~PromptMissing(opts)
           /\ FailedPollAttempt(pollResp'))
          => pc' = "select"]_vars

\* a 200/202 JSON answer that carries a job id and no URL in any field
JobIdOnly(r) ==
    /\ r.net /\ r.readOK /\ IsSuccessStatus(r.status)
    /\ r.body.parses /\ ~IsBinaryImage(r.body.data) /\ ~IsBase64Response(r.body)
    /\ r.body.doc.ID # ""
    /\ ResolveURL(UnmarshalUpscaleResult(r.body)).URL = ""

\* C4: a conservative or creative request with a prompt, answered by a JSON object with a
\* job id and no URL becomes a job ticket: polling starts for that id and the
\* call does not fail on the response.
C4_JobIdOnlyIsTicket ==
    (IsAsyncType(opts.Type) /\ opts.Prompt # ""
        /\ pc \in {"select", "polling", "returned", "done", "download", "display"}
        /\ postCount > 0 /\ resp.net /\ JobIdOnly(resp))
      => jobID = resp.body.doc.ID

\* C5: once the dialog that requested the upscale is destroyed, no further
\* poll request is sent.
C5_NoPollAfterDialogDestroyed ==
    [][dialog = "destroyed" => pollCount' = pollCount]_vars

\* C6: every result returned without an error has a non-empty URL.
C6_ResultHasURL ==
    ret.kind = "ok" => ret.result.URL # ""

\* C6 witness: a result returned by the poll loop, its URL taken from image_url
C6_Witness ==
    /\ Returned /\ ret.kind = "ok" /\ pollCount > 0
    /\ ret.result.IsCompleted /\ ret.result.URL = URL2 /\ ret.result.ImageURL = URL2

\* a 200 poll answer with status "completed" and a url
CompletedReply(r) ==
    /\ r.net /\ r.readOK /\ r.status = StatusOK /\ r.body.parses
    /\ r.body.doc.Status = "completed" /\ r.body.doc.URL # ""

\* C7: no poll request is sent before the first interval has passed; while
\* every answer so far was "pending" the loop does not return (it can only
\* end on the ceiling); when the answer after n "pending" ones is "completed"
\* with a URL, the loop returns there, after n + 1 requests, a result with
\* that URL.
C7_PendingThenCompleted ==
    /\ pollCount > 0 => elapsed >= pollInterval
    /\ (pollCount > 0 /\ pendingSeen = pollCount /\ ~Polling)
          => ret = Err(ErrPollTimeout)
    /\ (pollCount > 0 /\ pendingSeen = pollCount - 1 /\ pc # "polling"
          /\ CompletedReply(pollResp))
          => /\ Returned
             /\ ret.kind = "ok"
             /\ ret.result.URL = pollResp.body.doc.URL
             /\ ret.result.Status = "completed"

\* C7 witness: five "pending" answers, then "completed": returned on the sixth request
C7_Witness ==
    /\ pollCount = 6 /\ pendingSeen = 5 /\ CompletedReply(pollResp)
    /\ Returned /\ ret.kind = "ok" /\ ret.result.URL = URL1

\* a 200 answer to a poll request that reports completion (with a usable
\* URL) or failure (a non-empty error field)
ReportsEnd(r) ==
    /\ ~FailedPollAttempt(r) /\ r.body.parses
    /\ \/ PollCompletes(UnmarshalUpscaleResult(r.body))
       \/ r.body.doc.Error # ""

\* C8: when the poll endpoint never reports completion or failure, the loop
\* ends with the timeout error, and only once the ceiling has passed; it never
\* returns a result for a job that was not reported complete (stated for
\* requests that carry the prompt their mode needs).
C8_NoReportEndsInTimeout ==
    /\ (jobID # "" /\ ~Polling /\ ~PromptMissing(opts) /\ ~ReportsEnd(pollResp))
          => (ret = Err(ErrPollTimeout) /\ elapsed >= pollTimeout)
    /\ (jobID # "" /\ ret.kind = "ok")
          => IsJobDone(UnmarshalUpscaleResult(pollResp.body))

\* C8, the part that holds: under FairSpec the poll loop always ends (it does
\* not poll for ever), whatever the endpoint answers.
PollLoopEnds == Polling ~> ~Polling

\* C9: a poll answer with a non-empty error field ends the loop with the
\* server's message, whatever else the answer carries (stated for requests
\* that carry the prompt their mode needs).
C9_ErrorFieldFails ==
    (Returned /\ pollCount > 0 /\ ~PromptMissing(opts) /\ ~FailedPollAttempt(pollResp)
        /\ pollResp.body.parses /\ pollResp.body.doc.Error # "")
      => ret = Err(ErrJobFailed(pollResp.body.doc.Error))

\* C10: a conservative or creative request with an empty prompt sends no request.
C10_EmptyPromptNoRequest ==
    PromptMissing(opts) => postCount = 0

\* UpscaleImageFromPath was called and is past its pre-flight checks (or has
\* returned from them)
ClientCalled ==
    /\ pc \notin {"idle", "fetch", "validate", "preflight"}
    /\ ret # Err(ErrPromptRequired)

\* C11: a source image larger than 5 MiB makes the call fail with the
\* too-large error and no request is ever sent, neither the POST nor a poll;
\* an image of exactly 5 MiB passes the size check and the POST is sent.
C11_TooLargeFailsLocally ==
    /\ (image.path # "" /\ image.exists /\ image.size > maxSizeBytes)
          => /\ postCount = 0 /\ pollCount = 0 /\ pc # "send"
             /\ ClientCalled => (Returned /\ ret = Err(ErrTooLarge))
    /\ (image.path # "" /\ image.exists /\ image.size = maxSizeBytes /\ ClientCalled)
          => /\ ret # Err(ErrTooLarge)
             /\ pc = "send" \/ postCount > 0

\* C11 witness: an image one byte over the ceiling was rejected before any request
C11_Witness ==
    /\ image.exists /\ image.size = maxSizeBytes + 1
    /\ Returned /\ ret = Err(ErrTooLarge) /\ postCount = 0

\* a 200/202 answer to the POST that is decoded as a plain JSON result
\* (client.go:436-441): not image bytes, not a nested-base64 envelope
PlainJSONReply(r) ==
    /\ r.net /\ r.readOK /\ IsSuccessStatus(r.status)
    /\ r.body.parses /\ ~IsBinaryImage(r.body.data) /\ ~IsBase64Response(r.body)

\* the call is past the decoding of the response r to its POST
DecodedReply(r) ==
    /\ pc \in {"select", "polling", "returned", "done", "download", "display"}
    /\ postCount > 0 /\ resp = r /\ PlainJSONReply(r)

\* C12: for a conservative or creative request, a JSON response with a URL
\* and a job id is a job ticket: that id is polled, and whatever the call
\* returns, result or error, is what the poll loop produced, never the
\* result decoded from the initial response.
C12_URLAndJobIdIsTicket ==
    (IsAsyncType(opts.Type) /\ DecodedReply(resp) /\ resp.body.doc.ID # ""
        /\ ResolveURL(UnmarshalUpscaleResult(resp.body)).URL # "")
      => /\ jobID = resp.body.doc.ID
         /\ Returned => \/ ret = Err(ErrPollTimeout)
                        \/ pollCount > 0 /\ ret = PollOutcome(pollResp)

\* C12 witness: the initial response carried URL1 and a job id; the call
\* returned the URL of the poll answer instead
C12_Witness ==
    /\ IsAsyncType(opts.Type) /\ DecodedReply(resp)
    /\ resp.body.doc.ID = Job1 /\ resp.body.doc.URL = URL1
    /\ Returned /\ ret.kind = "ok" /\ ret.result.URL = URL2 /\ pollCount > 0

\* C13: for a conservative or creative request, a JSON response with a usable
\* URL and no job id is an immediate result: the call returns that URL and no
\* error (stated for requests that carry the prompt their mode needs).
C13_URLWithoutJobIdIsResult ==
    (IsAsyncType(opts.Type) /\ opts.Prompt # "" /\ DecodedReply(resp)
        /\ resp.body.doc.ID = ""
        /\ ResolveURL(UnmarshalUpscaleResult(resp.body)).URL # "")
      => /\ Returned
         /\ ret = Ok(ResolveURL(UnmarshalUpscaleResult(resp.body)))

\* the answer to the last poll request was a 200 with a JSON object and has
\* been handled
PollAnswerHandled ==
    /\ pollCount > 0 /\ pc # "polling"
    /\ ~FailedPollAttempt(pollResp) /\ pollResp.body.parses

\* C14: a poll answer ends the loop as completed exactly when the job is
\* reported over (flag, or status "completed"/"done") and a URL is resolved by
\* the rule of the initial response: url, image_url, output_url, then result
\* when it is an http(s) URL (stated for requests that carry the prompt their
\* mode needs).
C14_PollCompletedSameURLRule ==
    (PollAnswerHandled /\ ~PromptMissing(opts)) =>
        LET result == UnmarshalUpscaleResult(pollResp.body) IN
        (IsJobDone(result) /\ ResolveURL(result).URL # "")
            <=> (Returned /\ ret = Ok(ResolveURL(result)))

\* the image location of a JSON object by the stated priority: url, image_url,
\* output_url, then result if it begins with http:// or https://; "" for none
FirstLocation(d) ==
    IF d.URL # "" THEN d.URL
    ELSE IF d.ImageURL # "" THEN d.ImageURL
    ELSE IF d.OutputURL # "" THEN d.OutputURL
    ELSE IF HasPrefix(d.Result, "http://") \/ HasPrefix(d.Result, "https://") THEN d.Result
    ELSE ""

\* C15: for a JSON object response the image location is the first non-empty
\* of url, image_url, output_url and result (result only as an http(s) URL):
\* a fast request returns it; when no field yields a location the call fails
\* with the no-URL error, whose message quotes the raw body, and it fails so
\* only then.
C15_FirstLocationWins ==
    DecodedReply(resp) =>
        LET loc == FirstLocation(resp.body.doc) IN
        /\ loc = "" => (Returned /\ ret = ErrQuoting(ErrNoURL, resp.body))
        /\ loc # "" => ret.err # ErrNoURL
        /\ (loc # "" /\ ~IsAsyncType(opts.Type))
              => (Returned /\ ret.kind = "ok" /\ ret.result.URL = loc)

\* C15 witness: image_url and output_url are both set, image_url is returned
C15_Witness ==
    /\ DecodedReply(resp) /\ opts.Type = UpscaleFast
    /\ resp.body.doc.URL = "" /\ resp.body.doc.ImageURL = URL2
    /\ resp.body.doc.OutputURL = URL1
    /\ Returned /\ ret.kind = "ok" /\ ret.result.URL = URL2

\* a 200/202 JSON answer to the POST that matches the direct-URL envelope
\* (non-empty url) and the nested-base64 envelope (success and data.image)
BothShapesReply(r) ==
    /\ r.net /\ r.readOK /\ IsSuccessStatus(r.status)
    /\ r.body.parses /\ ~IsBinaryImage(r.body.data)
    /\ r.body.doc.URL # ""
    /\ r.body.doc.Success /\ r.body.doc.DataImage # <<>>

\* C16: the direct-URL envelope is tried before the nested-base64 envelope: a
\* body that matches both is resolved through its url, so the envelope is not
\* decoded into a temporary file and a fast request returns the url (stated
\* for requests that carry the prompt their mode needs).
C16_DirectURLBeforeEnvelope ==
    (pc \in {"select", "polling", "returned", "done", "download", "display"} /\ postCount > 0
        /\ ~PromptMissing(opts) /\ BothShapesReply(resp))
      => /\ JustReturned => UpscaledFiles = {}
         /\ ~IsAsyncType(opts.Type)
               => (Returned /\ ret.kind = "ok" /\ ret.result.URL = resp.body.doc.URL)

\* the errors that name the layer of the envelope that is malformed
EnvelopeErrors == {ErrDataFormat, ErrOuterB64, ErrNestedJSON, ErrInnerB64}

\* the call is past the decoding of a 200/202 answer with a JSON-looking body
JSONReplyDecoded ==
    /\ pc \in {"select", "polling", "returned", "done", "download", "display"} /\ postCount > 0
    /\ resp.net /\ resp.readOK /\ IsSuccessStatus(resp.status)
    /\ isJSONResponse(resp.body.data)

\* C18: an envelope with a malformed layer (no data URL, a base64 layer that
\* does not decode, a nested JSON that does not parse) makes the call fail
\* with the error of that layer, with no result and no temporary file; a body
\* whose outer JSON does not parse fails with the decode error that quotes it.
C18_MalformedEnvelopeFails ==
    /\ (JSONReplyDecoded /\ resp.body.parses /\ resp.body.doc.Success
           /\ resp.body.doc.DataImage \in MalformedEnvelopes)
          => /\ Returned /\ ret.kind = "err" /\ ret.err \in EnvelopeErrors
             /\ ret.result = ZeroResult /\ UpscaledFiles = {}
    /\ (JSONReplyDecoded /\ ~resp.body.parses)
          => /\ Returned /\ ret = ErrQuoting(ErrDecode, resp.body)
             /\ UpscaledFiles = {}

\* C18 witness: the inner base64 layer did not decode
C18_Witness ==
    /\ JSONReplyDecoded /\ resp.body.doc.DataImage \in MalformedEnvelopes
    /\ Returned /\ ret = Err(ErrInnerB64) /\ UpscaledFiles = {}

\* C19: round trip of the nested-base64 envelope: when the answer carries the
\* envelope built for the image bytes b, the call fails only if the temporary
\* file cannot be created or written, and the file it returns holds exactly b.
C19_EnvelopeRoundTrip ==
    \A b \in EnvelopeImages :
        (JSONReplyDecoded /\ resp.body.parses /\ resp.body.doc.Success
            /\ resp.body.doc.DataImage = Envelope(b))
          => /\ Returned
             /\ ret.kind = "err" => (ret.err \in {ErrCreateTemp, ErrWriteTemp} /\ UpscaledFiles = {})
             /\ ret.kind = "ok" =>
                   /\ JustReturned => UpscaledFiles = {[path |-> ret.result.URL, data |-> b]}
                   /\ ret.result.IsCompleted

\* C19 witness: the bytes <<251, 239>> (base64 "++8=") came back in the file
C19_Witness ==
    /\ JSONReplyDecoded /\ resp.body.doc.DataImage = Envelope(<<251, 239>>)
    /\ Returned /\ ret.kind = "ok"
    /\ \E f \in UpscaledFiles : f.path = ret.result.URL /\ f.data = <<251, 239>>

\* the call is past the classification of a non-empty 200/202 body
BodyClassified ==
    /\ pc \in {"select", "polling", "returned", "done", "download", "display"} /\ postCount > 0
    /\ resp.net /\ resp.readOK /\ IsSuccessStatus(resp.status)
    /\ Len(resp.body.data) > 0

\* the body was taken as image bytes: it is stored as it is in a temporary
\* file with the extension ext, unless the file system fails
StoredAsImage(ext) ==
    /\ Returned
    /\ ret.kind = "err" => (ret.err \in {ErrCreateTemp, ErrWriteTemp} /\ UpscaledFiles = {})
    /\ ret.kind = "ok" =>
          /\ JustReturned =>
                UpscaledFiles = {[path |-> ret.result.URL, data |-> resp.body.data]}
          /\ SubSeq(ret.result.URL, Len(ret.result.URL) - 3, Len(ret.result.URL)) = ext

\* the body was not taken as image bytes: no file holds it, and a file-system
\* error can only come from the image of an envelope
NotStoredAsImage ==
    /\ \A f \in UpscaledFiles : f.data # resp.body.data
    /\ ret.err \in {ErrCreateTemp, ErrWriteTemp} => IsBase64Response(resp.body)

StartsWithPNG(data) ==
    Len(data) >= 8 /\ SubSeq(data, 1, 8) = <<137, 80, 78, 71, 13, 10, 26, 10>>
StartsWithJPEG(data) ==
    Len(data) >= 3 /\ SubSeq(data, 1, 3) = <<255, 216, 255>>

\* C20 as stated: a body that starts with the PNG signature is a PNG image;
\* a body whose first byte is '{' or '[' is never an image; every other body
\* without the JPEG marker is an image stored as PNG.
C20_ClassifiedByFirstByte ==
    BodyClassified =>
        LET data == resp.body.data IN
        /\ StartsWithPNG(data) => StoredAsImage(".png")
        /\ data[1] \in {123, 91} => NotStoredAsImage
        /\ (~StartsWithPNG(data) /\ data[1] \notin {123, 91} /\ ~StartsWithJPEG(data))
              => StoredAsImage(".png")

\* the first byte after the leading white space is '{' or '['
LooksLikeJSON(data) ==
    LET rest == TrimSpace(data) IN Len(rest) > 0 /\ rest[1] \in {123, 91}

\* C20, amended: the same with "the first byte after the leading white space"
\* in place of "the first byte"; a body with the JPEG marker is a JPEG image.
C20_ClassifiedByFirstNonSpace ==
    BodyClassified =>
        LET data == resp.body.data IN
        /\ StartsWithPNG(data) => StoredAsImage(".png")
        /\ StartsWithJPEG(data) => StoredAsImage(".jpg")
        /\ LooksLikeJSON(data) => NotStoredAsImage
        /\ (~StartsWithPNG(data) /\ ~LooksLikeJSON(data) /\ ~StartsWithJPEG(data))
              => StoredAsImage(".png")

\* C20 witness: a PNG signature followed by {} was stored as a PNG file
C20_Witness ==
    /\ BodyClassified /\ resp.body.data = pngSignature \o <<123, 125>>
    /\ Returned /\ ret.kind = "ok"
    /\ UpscaledFiles = {[path |-> "/tmp/upscaled-1.png", data |-> resp.body.data]}

\* an upscale operation started from the UI has ended: the confirm dialog is
\* gone, no goroutine of the operation is running and the result dialog, if
\* it was opened, is closed
OperationOver ==
    /\ dialog = "destroyed" /\ pc \in {"idle", "done"} /\ resultDialog # "shown"

\* C17: when an upscale operation has ended, on whatever path, none of the
\* temporary files created for it remains: not the file of the upscaled
\* image, not the copy of the source image.
C17_NoTempFileRemains ==
    OperationOver => tmpFiles = {}

\* the retry loop ended on a response (the last POST was answered) and that
\* response has been acted on
FinalResponseHandled ==
    /\ LoopLeft /\ pc # "decode"
    /\ postCount > 0 /\ Len(statuses) = postCount /\ resp.net

\* C21: when the response the retry loop ends on has status 502, which takes
\* all three attempts, the call fails with the "temporarily unavailable"
\* error; for every other status outside 200/202 it fails with the generic
\* status error, which names the status and quotes the body.
C21_BadGatewayIsDistinguished ==
    (FinalResponseHandled /\ ~IsSuccessStatus(resp.status)) =>
        /\ Returned
        /\ resp.status = StatusBadGateway
              => (ret = Err(ErrBadGateway) /\ postCount = maxRetries)
        /\ resp.status # StatusBadGateway
              => (ret = ErrQuoting(ErrStatus, resp.body) /\ ret.err # ErrBadGateway)

\* C21 witness: 500, 502, 502 and the call has failed with the 502 error
C21_Witness ==
    /\ statuses = <<500, 502, 502>> /\ postCount = 3
    /\ Returned /\ ret = Err(ErrBadGateway)

\* C22: a call to the generation client sends one HTTP request and no more,
\* whatever the response; a response whose status is not 200 makes the call
\* return an error.
C22_GenerationNon200FailsOnce ==
    /\ genPosts <= 1
    /\ (genCalls > 0 /\ genReply.net) =>
          /\ genPosts = 1
          /\ genReply.status # StatusOK => genRet.kind = "err"

\* C22, the part that holds: no call sends a second request
C22_OneRequestPerCall ==
    /\ genPosts <= 1
    /\ (genCalls > 0 /\ genReply.net) => genPosts = 1

\* the locations of the README in its order, for the directories the system
\* gives: the working directory, ~/.fluxxxer, the XDG config directory
\* ($XDG_CONFIG_HOME, ~/.config by default), the directory of the executable
DocumentedOrder(d) ==
    <<CwdEnvPath>>
    \o (IF d.home # "" THEN <<d.home \o "/.fluxxxer/.env">> ELSE <<>>)
    \o (IF d.xdg # "" THEN <<d.xdg \o "/fluxxxer/.env">>
        ELSE IF d.home # "" THEN <<d.home \o "/.config/fluxxxer/.env">> ELSE <<>>)
    \o (IF d.exec # "" THEN <<d.exec \o "/.env">> ELSE <<>>)

\* the position in a sequence of paths of the first .env file that loads, 0 for none
FirstThatLoads(paths) ==
    LET good == { i \in 1..Len(paths) : envFiles[paths[i]] = "valid" } IN
    IF good = {} THEN 0 ELSE CHOOSE i \in good : \A j \in good : i <= j

\* C23: loadEnvironment reads the locations in the documented order; the first
\* one that loads is the only one loaded and no location after it is read;
\* when none loads, every location has been read once the function ends.
C23_FirstEnvFileWins ==
    LET order == DocumentedOrder(sysDirs)
        k == FirstThatLoads(order)
        n == Len(envReads)
    IN  /\ n <= Len(order) /\ envReads = SubSeq(order, 1, n)
        /\ k > 0 => n <= k
        /\ envLoaded = IF k > 0 /\ n = k THEN <<order[k]>> ELSE <<>>
        /\ envPc = "done" <=> (k > 0 /\ n = k)
        /\ envPc = "warned" => (k = 0 /\ n = Len(order))

\* C23 witness: the working directory holds a file that does not parse, the
\* file of $XDG_CONFIG_HOME loaded, and the valid file next to the executable
\* was not read
C23_Witness ==
    /\ envPc = "done" /\ sysDirs = [home |-> "/home/u", xdg |-> "/xdg", exec |-> "/opt/fluxxxer"]
    /\ envFiles[".env"] = "malformed" /\ envFiles["/opt/fluxxxer/.env"] = "valid"
    /\ envLoaded = <<"/xdg/fluxxxer/.env">>
    /\ envReads = <<".env", "/home/u/.fluxxxer/.env", "/xdg/fluxxxer/.env">>

\* C24: a POST that gets no response (a transport error) ends the call with
\* the request error on whichever attempt it happens, and no POST follows it;
\* every POST after the first follows a response with a 5xx status.
C24_TransportErrorNotRetried ==
    /\ postCount > Len(statuses) =>
          /\ postCount = Len(statuses) + 1
          /\ Returned /\ ret = Err(ErrRequest)
    /\ \A i \in 1..(postCount - 1) : i <= Len(statuses) /\ statuses[i] >= 500

\* C24 witness: two server errors were retried, the third POST got no
\* response and the call returned the request error
C24_Witness ==
    /\ postCount = 3 /\ statuses = <<502, 500>>
    /\ Returned /\ ret = Err(ErrRequest)

\* C25: every POST of the retry loop goes out with the complete multipart
\* body: the buffer behind the request is complete whenever a POST is about
\* to be sent, and no POST is sent with an empty body or fails for want of one.
C25_RetriesCarryCompleteBody ==
    /\ pc = "send" => reqBody = "complete"
    /\ carried \in {"none", "complete"}

\* C26: once the ceiling has passed since the start of polling, no poll
\* request is sent any more, even when a tick is waiting in the ticker's
\* channel at that moment.
C26_NoPollAfterCeiling ==
    [][pollCount' > pollCount => ~TimeoutReady(elapsed)]_vars

\* C26, the part that holds: the ceiling is counted from the start of polling
\* and no poll attempt sets it back
C26_CeilingNotReset ==
    [][(Polling /\ Polling') => elapsed' >= elapsed]_vars

\* the poll loop was entered
PollStarted == Polling \/ pollCount > 0 \/ jobID # ""

\* C27: the poll loop is entered, and a poll request sent, only for a
\* conservative or creative request whose initial response was a JSON object
\* with a resolved URL and a job id, and that id is the one polled; never for
\* a fast request, a binary image response or a nested-base64 response.
C27_PollOnlyForAsyncTicket ==
    /\ PollStarted =>
          /\ IsAsyncType(opts.Type)
          /\ PlainJSONReply(resp)
          /\ ResolveURL(UnmarshalUpscaleResult(resp.body)).URL # ""
          /\ resp.body.doc.ID # "" /\ jobID = resp.body.doc.ID
    /\ (opts.Type = UpscaleFast \/ IsBinaryImage(resp.body.data) \/ IsBase64Response(resp.body))
          => (pollCount = 0 /\ ~Polling)

\* C27 witness: a creative request answered by a ticket has sent poll requests
C27_Witness ==
    /\ opts.Type = UpscaleCreative /\ pollCount = 2 /\ pc = "polling"
    /\ resp.body.doc.ID = Job1 /\ resp.body.doc.URL = URL1

\* C28: an envelope whose nested JSON has an empty or a missing image field
\* makes the call fail and leaves no temporary file; no envelope is returned
\* as a completed result that points to a file of zero bytes.
C28_EmptyNestedImageFails ==
    /\ (JSONReplyDecoded /\ resp.body.parses /\ resp.body.doc.Success
           /\ resp.body.doc.DataImage \in EmptyImageEnvelopes)
          => (Returned /\ ret.kind = "err" /\ UpscaledFiles = {})
    /\ (JSONReplyDecoded /\ IsBase64Response(resp.body) /\ JustReturned /\ ret.kind = "ok")
          => \A f \in UpscaledFiles : f.path = ret.result.URL => f.data # <<>>

\* the result the client returned points to a temporary file it wrote
LocalResult ==
    /\ ret.kind = "ok"
    /\ \E f \in UpscaledFiles : f.path = ret.result.URL /\ f.path = TempPath(tmpDir, ImageExt(f.data))

\* C29: a result that points to a temporary file of the client is loaded
\* from disk and never handed to the download over HTTP, whatever the
\* temporary directory of the process.
C29_LocalResultLoadedFromDisk ==
    [][(pc = "returned" /\ LocalResult /\ pc' # pc)
          => (pc' \in {"display", "done"} /\ pc' # "download")]_vars

\* C29, the part that holds: with the temporary directory /tmp the local
\* result is loaded from disk
C29_LocalResultInTmp ==
    [][(pc = "returned" /\ LocalResult /\ tmpDir = "/tmp" /\ pc' # pc)
          => pc' \in {"display", "done"}]_vars

\* C30: after any sequence of clicks on the two toggles exactly one toggle is
\* active, isGeneratorMode is the state of the Generator toggle, the
\* application is in upscaler mode only with a configured upscaler, and
\* setMode(false) without a configured upscaler leaves generator mode.
C30_OneModeAtATime ==
    /\ generatorToggle # upscalerToggle
    /\ isGeneratorMode = generatorToggle
    /\ ~isGeneratorMode => IsUpscalerConfigured(config)
    /\ ~IsUpscalerConfigured(config) =>
          setMode(Widgets, FALSE, config) = [g |-> TRUE, u |-> FALSE, mode |-> TRUE]

\* C30 witness: upscaler mode after clicks on both toggles, the last one a
\* click on the Upscaler toggle that was already active
C30_Witness ==
    /\ clicks = <<"upscaler", "generator", "generator", "upscaler", "upscaler">>
    /\ ~isGeneratorMode /\ upscalerToggle /\ ~generatorToggle

====
